---- MODULE Spec2Model ----
(***************************************************************************)
(* A model of the fault-injection harness of the vector task              *)
(* (test/fault-injection.cpp, test/element.cpp, test/tests.cpp) and of    *)
(* the container ct::Vector<T> it exercises (src/vector.h declares the    *)
(* container; its member definitions are not part of the sources, so the  *)
(* container's operations follow the written specification).              *)
(*                                                                         *)
(* The functions of the harness are operators on a machine record m:      *)
(*   m.fi      the thread_local scheduler state of the running thread     *)
(*   m.heap    the blocks handed out by the real allocator                *)
(*   m.mem     the elements: the instance registry, their data, counters  *)
(*   m.vec     the containers of the operation under test                 *)
(* Every operator returns [m |-> the machine afterwards, exc |-> the      *)
(* exception in flight ("none" when it returned), ret |-> its result].    *)
(***************************************************************************)
EXTENDS Integers, Sequences, FiniteSets, TLC

\* ------------------------------------------------------------------ bounds
NumThreads == 2
MaxSteps == 4
MaxCalls == 3
MaxMarkers == 2
MaxBlocks == 1
MaxBufs == 3
MaxCap == 2

Threads == 1..NumThreads
MainThread == CHOOSE t \in Threads : \A u \in Threads : t <= u
BufIds == 1..MaxBufs
nullptr == 0

\* The payloads (Element::data) the tests give their elements: one per index. moved_from is what a
\* move leaves in its source (element.cpp:26); Raw stands for the bytes of storage that
\* holds no object.
Values == 1..MaxCap
moved_from == 0 - 1
Raw == 0

\* The names of the containers of the operation under test.
Names == {"a", "b"}

\* a and b are Vector<Element>; c is a Vector<ElementWithNonThrowingMove>; o is a
\* Vector<OrderedElement>.
Containers == Names \cup {"c", "o"}

\* An address is <<block, index>>: slot index of heap block `block`; block nullptr is
\* the stack of the operation, whose slot 0 is the local Element x.
Addrs == (0..MaxBufs) \X (0..(MaxCap - 1))
stack_x == <<nullptr, 0>>
stack_y == <<nullptr, 1>>

VARIABLES
  fi,        \* fi[t]: thread t's `context`, `*context` and `disabled`, with the history of the pass
  markers,   \* markers[t]: the live FaultInjectionDisable objects of thread t, oldest first
  pc,        \* pc[t]: where thread t is: "idle" | "f" | "unwinding" | "catch" | "abort"
  prog,      \* prog[t]: the operation f handed to faulty_run, as its steps
  ip,        \* ip[t]: the steps of f done in the current pass
  heap,      \* heap[b]: the size of block b, 0 when the allocator does not hold it out
  mem,       \* the elements: ElementBase::instances, their data, the counters, the failed CHECKs
  vec,       \* vec[n]: the container named n of the operation: alive, data, size, capacity
  ev         \* the last step taken: its thread, its name, the exception it raised

vars == <<fi, markers, pc, prog, ip, heap, mem, vec, ev>>

\* ------------------------------------------------ scheduler state (per thread)
\* fault-injection.cpp:51-59. context = FALSE is `context == nullptr`; the fields of
\* FaultInjectionContext are meaningful while context is TRUE. capacity is the
\* capacity of the skip_ranges vector. pass, calls, faults, nested, checks and abort are
\* move_throw_disabled is the flag behind move_throw_disabled() (fault-injection.h:13) and
\* mdg the member was_enabled of the live FaultInjectionMoveThrowDisable, if there is one.
\* history: the pass number of the running faulty_run, the enabled checks made in this
\* pass, the numbers of those that answered "fail", the checks made from inside
\* should_inject_fault, all checks made by the last step, and the assertion that failed.
FaultInjectionContext ==
  [ skip_ranges |-> <<>>, capacity |-> 0, error_index |-> 0, skip_index |-> 0,
    fault_registered |-> FALSE ]

ThreadLocal ==
  [ context |-> FALSE, ctx |-> FaultInjectionContext, disabled |-> FALSE,
    pass |-> 0, calls |-> 0, faults |-> {}, nested |-> 0, checks |-> 0, abort |-> "",
    move_throw_disabled |-> FALSE, mdg |-> <<>> ]

\* element.cpp:98 (instances), element.h:46-50 (data, copy_counter, move_counter);
\* failed is the first CHECK of the test framework that did not hold.
\* insertion_order is OrderedElement::insertion_order() (ordered-element.h:26-29).
Memory ==
  [ instances |-> {}, data |-> [p \in Addrs |-> Raw], copy_counter |-> 0, move_counter |-> 0,
    failed |-> "", insertion_order |-> <<>> ]

\* vector.h:9-120 declares no data member; the written specification names them: the
\* owning pointer to the buffer, size and capacity. alive is the lifetime of the
\* container object itself.
NoVector == [alive |-> FALSE, data |-> nullptr, size |-> 0, capacity |-> 0]

Result(m, exc, ret) == [m |-> m, exc |-> exc, ret |-> ret]

\* The one element of a singleton: The({ e(x) : x \in {v} }) names the value v as x in e.
The(S) == CHOOSE x \in S : TRUE

\* abort(), as a failed assert calls it: the first failure is kept.
Abort(m, what) == [m EXCEPT !.fi.abort = IF @ = "" THEN what ELSE @]

\* ------------------------------------------------------ FaultInjectionDisable
\* A constructor that saves the flag and forgets to set it.
FaultInjectionDisable_ctor_unset(m) ==
  The({ Result(n, "none", n.fi.disabled) : n \in {m} })

\* fault-injection.cpp:189-192: the constructor saves `disabled` and sets it.
FaultInjectionDisable_ctor(m) ==
  The({ Result([n EXCEPT !.fi.disabled = TRUE], "none", n.fi.disabled) : n \in {m} })

\* A reset that re-enables injection whatever the marker saved.
FaultInjectionDisable_reset_reenables(m, was_disabled) ==
  [m EXCEPT !.fi.disabled = FALSE]

\* fault-injection.cpp:194-196 (the destructor, 198-200, only calls reset).
FaultInjectionDisable_reset(m, was_disabled) ==
  [m EXCEPT !.fi.disabled = was_disabled]

\* ------------------------------------------------------------ the scheduler
RECURSIVE should_inject_fault(_)

\* An allocator that hands out a block it has handed out already.
aligned_alloc_reuses(m) ==
  IF \E b \in BufIds : m.heap[b] # 0
    THEN CHOOSE b \in BufIds : m.heap[b] # 0 /\ \A c \in BufIds : m.heap[c] # 0 => b <= c
    ELSE CHOOSE b \in BufIds : \A c \in BufIds : b <= c

\* The real allocator behind fault-injection.cpp:16 (std::aligned_alloc): the lowest
\* block not handed out, nullptr when there is none.
aligned_alloc(m) ==
  IF \E b \in BufIds : m.heap[b] = 0
    THEN CHOOSE b \in BufIds : m.heap[b] = 0 /\ \A c \in BufIds : m.heap[c] = 0 => b <= c
    ELSE nullptr

\* An allocation that asks the real allocator first and the scheduler afterwards.
injected_allocate_late_check(m, count, tracked) ==
  The({ The({ IF chk.exc # "none" THEN Result(chk.m, chk.exc, nullptr)
              ELSE IF chk.ret \/ ptr = nullptr THEN Result(chk.m, "bad_alloc", nullptr)
              ELSE Result(chk.m, "none", ptr)
            : chk \in {should_inject_fault(
                         IF tracked /\ ptr # nullptr THEN [m EXCEPT !.heap[ptr] = count] ELSE m)} })
      : ptr \in {aligned_alloc(m)} })

\* An allocation that answers a failed check with a null pointer instead of bad_alloc.
injected_allocate_null_on_fail(m, count, tracked) ==
  The({ IF chk.exc # "none" THEN Result(chk.m, chk.exc, nullptr)
        ELSE IF chk.ret \/ ~tracked THEN Result(chk.m, "none", nullptr)
        ELSE The({ IF ptr = nullptr THEN Result(chk.m, "bad_alloc", nullptr)
                   ELSE Result([chk.m EXCEPT !.heap[ptr] = count], "none", ptr)
                 : ptr \in {aligned_alloc(chk.m)} })
      : chk \in {should_inject_fault(m)} })

\* fault-injection.cpp:11-22. One fallibility check, then the real allocator. tracked
\* is FALSE for the harness's own requests (the skip_ranges storage, the message of an
\* InjectedFault), whose blocks are kept out of heap: they go through the same check.
injected_allocate(m, count, tracked) ==
  The({ IF chk.exc # "none" THEN Result(chk.m, chk.exc, nullptr)
        ELSE IF chk.ret THEN Result(chk.m, "bad_alloc", nullptr)
        ELSE IF ~tracked THEN Result(chk.m, "none", nullptr)
        ELSE The({ IF ptr = nullptr THEN Result(chk.m, "bad_alloc", nullptr)
                   ELSE Result([chk.m EXCEPT !.heap[ptr] = count], "none", ptr)
                 : ptr \in {aligned_alloc(chk.m)} })
      : chk \in {should_inject_fault(m)} })

\* A deallocation that forgets std::free.
injected_deallocate_leaks(m, ptr) == m

\* fault-injection.cpp:24-26: std::free, no check.
injected_deallocate(m, ptr) ==
  IF ptr = nullptr THEN m ELSE [m EXCEPT !.heap[ptr] = 0]

\* fault-injection.cpp:42-44, FaultInjectionAllocator<size_t>::allocate.
FaultInjectionAllocator_allocate(m, count) ==
  injected_allocate(m, count, FALSE)

\* The checks of a request the harness makes for itself are counted as nested, not
\* as checks of the step: r is the request's result, m the machine before it.
Nested(m, r) ==
  [r EXCEPT !.m.fi.nested = @ + (r.m.fi.checks - m.fi.checks),
            !.m.fi.checks = m.fi.checks]

\* std::vector<size_t, FaultInjectionAllocator<size_t>>::push_back, as
\* fault-injection.cpp:140 uses it: a full vector asks its allocator for a block of
\* twice the size (at least one) before it appends.
skip_ranges_push_back(m, v) ==
  The({ IF Len(n.fi.ctx.skip_ranges) < n.fi.ctx.capacity
          THEN Result([n EXCEPT !.fi.ctx.skip_ranges = Append(@, v)], "none", TRUE)
          ELSE The({ IF r.exc # "none" THEN Result(r.m, r.exc, FALSE)
                     ELSE Result([r.m EXCEPT !.fi.ctx.skip_ranges = Append(@, v),
                                             !.fi.ctx.capacity = IF @ = 0 THEN 1 ELSE 2 * @],
                                 "none", TRUE)
                   : r \in {Nested(n, FaultInjectionAllocator_allocate(
                                         n, IF n.fi.ctx.capacity = 0 THEN 1 ELSE 2 * n.fi.ctx.capacity))} })
      : n \in {m} })

\* The history of an enabled check: it is the calls-th of the pass; fails says whether
\* it answers "fail".
Counted(m, fails) ==
  [m EXCEPT !.fi.calls = @ + 1,
            !.fi.faults = IF fails THEN @ \cup {m.fi.calls + 1} ELSE @]

\* A new failure point that is counted and not recorded.
new_failure_point_unrecorded(m) ==
  Result([m EXCEPT !.fi.ctx.error_index = @ + 1, !.fi.ctx.fault_registered = TRUE], "none", TRUE)

\* A new failure point that is recorded and does not fail.
new_failure_point_passes(m) ==
  The({ The({ IF pb.exc # "none"
                THEN Result(FaultInjectionDisable_reset(pb.m, dg.ret), pb.exc, FALSE)
                ELSE Result(FaultInjectionDisable_reset(
                              [pb.m EXCEPT !.fi.ctx.fault_registered = TRUE], dg.ret),
                            "none", FALSE)
            : pb \in {skip_ranges_push_back([dg.m EXCEPT !.fi.ctx.error_index = @ + 1], 0)} })
      : dg \in {FaultInjectionDisable_ctor(m)} })

\* A new failure point recorded without the marker dg.
new_failure_point_unguarded(m) ==
  The({ IF pb.exc # "none" THEN Result(pb.m, pb.exc, FALSE)
        ELSE Result([pb.m EXCEPT !.fi.ctx.fault_registered = TRUE], "none", TRUE)
      : pb \in {skip_ranges_push_back([m EXCEPT !.fi.ctx.error_index = @ + 1], 0)} })

\* fault-injection.cpp:137-143: a failure point no earlier pass has reached.
new_failure_point(m) ==
  The({ The({ IF pb.exc # "none"
                THEN Result(FaultInjectionDisable_reset(pb.m, dg.ret), pb.exc, FALSE)
                ELSE Result(FaultInjectionDisable_reset(
                              [pb.m EXCEPT !.fi.ctx.fault_registered = TRUE], dg.ret),
                            "none", TRUE)
            : pb \in {skip_ranges_push_back([dg.m EXCEPT !.fi.ctx.error_index = @ + 1], 0)} })
      : dg \in {FaultInjectionDisable_ctor(m)} })

\* A check that fails at a recorded point and does not register the fault.
should_inject_fault_unregistered(m0) ==
  The({ IF ~m.fi.context THEN Result(m, "none", FALSE)
        ELSE IF m.fi.disabled THEN Result(m, "none", FALSE)
        ELSE IF ~(m.fi.ctx.error_index <= Len(m.fi.ctx.skip_ranges))
          THEN Result(Abort(m, "assert error_index <= skip_ranges.size()"), "none", FALSE)
        ELSE IF m.fi.ctx.error_index = Len(m.fi.ctx.skip_ranges)
          THEN new_failure_point(Counted(m, TRUE))
        ELSE IF ~(m.fi.ctx.skip_index <= m.fi.ctx.skip_ranges[m.fi.ctx.error_index + 1])
          THEN Result(Abort(Counted(m, FALSE), "assert skip_index <= skip_ranges[error_index]"),
                      "none", FALSE)
        ELSE IF m.fi.ctx.skip_index = m.fi.ctx.skip_ranges[m.fi.ctx.error_index + 1]
          THEN Result([Counted(m, TRUE) EXCEPT !.fi.ctx.error_index = @ + 1,
                                               !.fi.ctx.skip_index = 0], "none", TRUE)
        ELSE Result([Counted(m, FALSE) EXCEPT !.fi.ctx.skip_index = @ + 1], "none", FALSE)
      : m \in {[m0 EXCEPT !.fi.checks = @ + 1]} })

\* A check that fails at a recorded point and keeps counting from where it was.
should_inject_fault_keeps_count(m0) ==
  The({ IF ~m.fi.context THEN Result(m, "none", FALSE)
        ELSE IF m.fi.disabled THEN Result(m, "none", FALSE)
        ELSE IF ~(m.fi.ctx.error_index <= Len(m.fi.ctx.skip_ranges))
          THEN Result(Abort(m, "assert error_index <= skip_ranges.size()"), "none", FALSE)
        ELSE IF m.fi.ctx.error_index = Len(m.fi.ctx.skip_ranges)
          THEN new_failure_point(Counted(m, TRUE))
        ELSE IF ~(m.fi.ctx.skip_index <= m.fi.ctx.skip_ranges[m.fi.ctx.error_index + 1])
          THEN Result(Abort(Counted(m, FALSE), "assert skip_index <= skip_ranges[error_index]"),
                      "none", FALSE)
        ELSE IF m.fi.ctx.skip_index = m.fi.ctx.skip_ranges[m.fi.ctx.error_index + 1]
          THEN Result([Counted(m, TRUE) EXCEPT !.fi.ctx.error_index = @ + 1,
                                               !.fi.ctx.fault_registered = TRUE], "none", TRUE)
        ELSE Result([Counted(m, FALSE) EXCEPT !.fi.ctx.skip_index = @ + 1], "none", FALSE)
      : m \in {[m0 EXCEPT !.fi.checks = @ + 1]} })

\* fault-injection.cpp:127-156.
should_inject_fault(m0) ==
  The({ IF ~m.fi.context THEN Result(m, "none", FALSE)
        ELSE IF m.fi.disabled THEN Result(m, "none", FALSE)
        ELSE IF ~(m.fi.ctx.error_index <= Len(m.fi.ctx.skip_ranges))
          THEN Result(Abort(m, "assert error_index <= skip_ranges.size()"), "none", FALSE)
        ELSE IF m.fi.ctx.error_index = Len(m.fi.ctx.skip_ranges)
          THEN new_failure_point(Counted(m, TRUE))
        ELSE IF ~(m.fi.ctx.skip_index <= m.fi.ctx.skip_ranges[m.fi.ctx.error_index + 1])
          THEN Result(Abort(Counted(m, FALSE), "assert skip_index <= skip_ranges[error_index]"),
                      "none", FALSE)
        ELSE IF m.fi.ctx.skip_index = m.fi.ctx.skip_ranges[m.fi.ctx.error_index + 1]
          THEN Result([Counted(m, TRUE) EXCEPT !.fi.ctx.error_index = @ + 1,
                                               !.fi.ctx.skip_index = 0,
                                               !.fi.ctx.fault_registered = TRUE], "none", TRUE)
        ELSE Result([Counted(m, FALSE) EXCEPT !.fi.ctx.skip_index = @ + 1], "none", FALSE)
      : m \in {[m0 EXCEPT !.fi.checks = @ + 1]} })

\* A failing check whose exception is never thrown.
throw_InjectedFault_silent(m) ==
  Result(m, "none", FALSE)

\* fault-injection.cpp:160-161: the marker dg, then the InjectedFault is built (a
\* std::runtime_error, which asks operator new for its message) and thrown.
throw_InjectedFault(m) ==
  The({ The({ Result(FaultInjectionDisable_reset(msg.m, dg.ret),
                     IF msg.exc # "none" THEN msg.exc ELSE "InjectedFault", FALSE)
            : msg \in {Nested(dg.m, injected_allocate(dg.m, 1, FALSE))} })
      : dg \in {FaultInjectionDisable_ctor(m)} })

\* fault-injection.cpp:158-163.
fault_injection_point(m) ==
  The({ IF chk.exc # "none" THEN Result(chk.m, chk.exc, FALSE)
        ELSE IF chk.ret THEN throw_InjectedFault(chk.m)
        ELSE Result(chk.m, "none", FALSE)
      : chk \in {should_inject_fault(m)} })

\* ---------------------------------------------------------------- the elements
\* FAIL_CHECK / CHECK of the test framework: the first failure is kept.
FAIL_CHECK(m, what) == [m EXCEPT !.mem.failed = IF @ = "" THEN what ELSE @]

\* std::set<const ElementBase*>::insert / erase, as element.cpp:73 and :84 use them
\* under the marker dg: a new node is a request to operator new.
instances_insert(m, p) ==
  IF p \in m.mem.instances THEN Result(m, "none", FALSE)
  ELSE The({ IF r.exc # "none" THEN Result(Abort(r.m, "exception in a noexcept function"), "none", FALSE)
             ELSE Result([r.m EXCEPT !.mem.instances = @ \cup {p}], "none", TRUE)
           : r \in {Nested(m, injected_allocate(m, 1, FALSE))} })

\* A registration that forgets the object.
add_instance_forgets(m, p) ==
  m

\* element.cpp:71-80.
add_instance(m, p) ==
  The({ The({ FaultInjectionDisable_reset(
                IF ins.ret THEN ins.m
                ELSE FAIL_CHECK(ins.m, "A new object is created while the previous object at this address was not destroyed"),
                dg.ret)
            : ins \in {instances_insert(dg.m, p)} })
      : dg \in {FaultInjectionDisable_ctor(m)} })

\* An unregistration that empties the registry.
delete_instance_all(m, p) ==
  The({ FaultInjectionDisable_reset(
          IF p \in dg.m.mem.instances
            THEN [dg.m EXCEPT !.mem.instances = {}, !.mem.data[p] = Raw]
            ELSE FAIL_CHECK(dg.m, "Attempt of destroying non-existing object"),
          dg.ret)
      : dg \in {FaultInjectionDisable_ctor(m)} })

\* element.cpp:82-88. The storage of the object that is gone holds no value any more.
delete_instance(m, p) ==
  The({ FaultInjectionDisable_reset(
          IF p \in dg.m.mem.instances
            THEN [dg.m EXCEPT !.mem.instances = @ \ {p}, !.mem.data[p] = Raw]
            ELSE FAIL_CHECK(dg.m, "Attempt of destroying non-existing object"),
          dg.ret)
      : dg \in {FaultInjectionDisable_ctor(m)} })

\* element.cpp:90-96.
assert_exists(m, p) ==
  The({ FaultInjectionDisable_reset(
          IF p \in dg.m.mem.instances THEN dg.m
          ELSE FAIL_CHECK(dg.m, "Accessing a non-existing object"),
          dg.ret)
      : dg \in {FaultInjectionDisable_ctor(m)} })

\* A constructor that threw leaves no object: the bytes it wrote are storage again.
NoObject(r, p) == Result([r.m EXCEPT !.mem.data[p] = Raw], r.exc, FALSE)

\* element.cpp:12-16, ElementBase::ElementBase(int), which Element inherits.
ElementBase_int(m, p, v) ==
  The({ IF fip.exc # "none" THEN NoObject(fip, p)
        ELSE Result(add_instance(fip.m, p), "none", TRUE)
      : fip \in {fault_injection_point([m EXCEPT !.mem.data[p] = v])} })

\* A copy constructor that takes the value out of its source, as the move does.
ElementBase_copy_steals(m, p, other) ==
  The({ IF fip.exc # "none" THEN NoObject(fip, p)
        ELSE Result([add_instance(fip.m, p) EXCEPT !.mem.copy_counter = @ + 1], "none", TRUE)
      : fip \in {fault_injection_point([m EXCEPT !.mem.data[p] = m.mem.data[other],
                                                  !.mem.data[other] = moved_from])} })

\* A copy constructor that registers the new object before its fallible step.
ElementBase_copy_registers_first(m, p, other) ==
  The({ IF fip.exc # "none" THEN Result(fip.m, fip.exc, FALSE)
        ELSE Result([fip.m EXCEPT !.mem.copy_counter = @ + 1], "none", TRUE)
      : fip \in {fault_injection_point(
                   add_instance([m EXCEPT !.mem.data[p] = m.mem.data[other]], p))} })

\* A copy constructor that does not count itself.
ElementBase_copy_uncounted(m, p, other) ==
  The({ IF fip.exc # "none" THEN NoObject(fip, p)
        ELSE Result(add_instance(fip.m, p), "none", TRUE)
      : fip \in {fault_injection_point([m EXCEPT !.mem.data[p] = m.mem.data[other]])} })

\* element.cpp:18-23, ElementBase::ElementBase(const ElementBase&); Element's copy
\* constructor is the defaulted one (element.h:59).
ElementBase_copy(m, p, other) ==
  The({ IF fip.exc # "none" THEN NoObject(fip, p)
        ELSE Result([add_instance(fip.m, p) EXCEPT !.mem.copy_counter = @ + 1], "none", TRUE)
      : fip \in {fault_injection_point([m EXCEPT !.mem.data[p] = m.mem.data[other]])} })

\* A move constructor that leaves its source with the value.
ElementBase_move_keeps_source(m, p, other) ==
  [add_instance([m EXCEPT !.mem.data[p] = m.mem.data[other]], p)
     EXCEPT !.mem.move_counter = @ + 1]

\* element.cpp:25-29, ElementBase::ElementBase(ElementBase&&) noexcept.
ElementBase_move(m, p, other) ==
  [add_instance([m EXCEPT !.mem.data[p] = m.mem.data[other],
                          !.mem.data[other] = moved_from], p)
     EXCEPT !.mem.move_counter = @ + 1]

\* A destructor that makes a fallible step before it unregisters the object.
ElementBase_dtor_fallible(m, p) ==
  The({ IF fip.exc # "none" THEN Abort(fip.m, "exception in a destructor")
        ELSE delete_instance(fip.m, p)
      : fip \in {fault_injection_point(m)} })

\* A destructor that leaves the object registered.
ElementBase_dtor_keeps(m, p) ==
  m

\* element.cpp:31-33, ElementBase::~ElementBase().
ElementBase_dtor(m, p) ==
  delete_instance(m, p)

\* element.cpp:111-114, Element::Element(Element&&): the base is moved, then the
\* fallible step; when it throws the base, already built, is destroyed.
Element_move(m, p, other) ==
  The({ IF fip.exc # "none" THEN Result(ElementBase_dtor(fip.m, p), fip.exc, FALSE)
        ELSE Result(fip.m, "none", TRUE)
      : fip \in {fault_injection_point(ElementBase_move(m, p, other))} })

\* element.cpp:44-49, ElementBase::operator=(ElementBase&&) noexcept.
ElementBase_move_assign(m, p, c) ==
  The({ [n EXCEPT !.mem.move_counter = @ + 1,
                  !.mem.data[p] = n.mem.data[c],
                  !.mem.data[c] = moved_from]
      : n \in {assert_exists(m, p)} })

\* element.cpp:116-120, Element::operator=(Element&&): the fallible step, then the base.
Element_move_assign(m, p, c) ==
  The({ IF fip.exc # "none" THEN Result(fip.m, fip.exc, FALSE)
        ELSE Result(ElementBase_move_assign(fip.m, p, c), "none", TRUE)
      : fip \in {fault_injection_point(m)} })

\* FaultInjectionMoveThrowDisable (fault-injection.h:31-43) is declared and defined
\* nowhere in the sources: as the specification describes it, and as its member
\* was_enabled says, the constructor saves whether moves may throw and forbids it,
\* reset() and the destructor restore what was saved.
FaultInjectionMoveThrowDisable_ctor(m) ==
  [m EXCEPT !.fi.mdg = <<~m.fi.move_throw_disabled>>, !.fi.move_throw_disabled = TRUE]

FaultInjectionMoveThrowDisable_reset(m) ==
  [m EXCEPT !.fi.move_throw_disabled = ~m.fi.mdg[1], !.fi.mdg = <<>>]

\* ----------------------------------------------------- the allocation hook
NewForms == {"new", "new_aligned", "new[]", "new[]_aligned"}

DeleteForms ==
  {"delete", "delete_aligned", "delete_sized", "delete_sized_aligned",
   "delete[]", "delete[]_aligned", "delete[]_sized", "delete[]_sized_aligned"}

\* An operator new that hands out one slot, whatever it is asked for.
operator_new_single(m, form, count) ==
  injected_allocate(m, 1, TRUE)

\* An operator new that answers a failure with a null pointer, as the nothrow forms do.
operator_new_nothrow(m, form, count) ==
  The({ IF r.exc = "bad_alloc" THEN Result(r.m, "none", nullptr) ELSE r
      : r \in {injected_allocate(m, count, TRUE)} })

\* fault-injection.cpp:77-91: the four replaced forms of operator new.
operator_new(m, form, count) ==
  injected_allocate(m, count, TRUE)

\* An operator delete that gives nothing back.
operator_delete_ignored(m, form, ptr) ==
  m

\* fault-injection.cpp:93-123: the eight replaced forms of operator delete.
operator_delete(m, form, ptr) ==
  injected_deallocate(m, ptr)

\* --------------------------------------------------------------- the container
\* ct::Vector<Element>. Its member functions are declared in vector.h and defined
\* nowhere in the sources: they are written here as the specification describes
\* them. Element's move constructor may throw (element.h:60), so a reallocation
\* of a Vector<Element> transfers the elements by copy.
Slot(buf, i) == <<buf, i>>

RECURSIVE destroy_n(_, _, _)
\* The elements buf[k-1], ..., buf[0] are destroyed, from the back to the front.
destroy_n(m, buf, k) ==
  IF k = 0 THEN m ELSE destroy_n(ElementBase_dtor(m, Slot(buf, k - 1)), buf, k - 1)

RECURSIVE copy_n(_, _, _, _, _)
\* src[i], ..., src[n-1] are copy-constructed into dst, in order; ret is the number
\* of elements dst holds when the copying ends or throws.
copy_n(m, dst, src, i, n) ==
  IF i = n THEN Result(m, "none", n)
  ELSE The({ IF c.exc # "none" THEN Result(c.m, c.exc, i)
             ELSE copy_n(c.m, dst, src, i + 1, n)
           : c \in {ElementBase_copy(m, Slot(dst, i), Slot(src, i))} })

\* Raw storage for n elements from the allocation hook; none for n = 0.
allocate(m, n) ==
  IF n = 0 THEN Result(m, "none", nullptr) ELSE operator_new(m, "new", n)

deallocate(m, buf) == operator_delete(m, "delete", buf)

\* The cleanup of a failed build: the k elements the new buffer holds are destroyed and
\* the buffer is released; the exception goes on.
discard(m, buf, k, exc) == Result(deallocate(destroy_n(m, buf, k), buf), exc, FALSE)

\* std::is_nothrow_move_constructible_v<T> for the elements of container n: Element
\* declares a move constructor that may throw (element.h:60),
\* ElementWithNonThrowingMove has the noexcept one of ElementBase (element.h:68-73).
NothrowMove(n) == n = "c"

RECURSIVE move_n(_, _, _, _, _)
\* src[i], ..., src[k-1] are move-constructed into dst, in order, by the noexcept
\* move constructor of ElementBase.
move_n(m, dst, src, i, k) ==
  IF i = k THEN Result(m, "none", k)
  ELSE The({ move_n(mv, dst, src, i + 1, k)
           : mv \in {ElementBase_move(m, Slot(dst, i), Slot(src, i))} })

\* The transfer of the k elements of container n to the buffer dst: by move when the
\* move of the elements cannot throw, by copy otherwise.
transfer_n(m, n, dst, src, k) ==
  IF NothrowMove(n) THEN move_n(m, dst, src, 0, k) ELSE copy_n(m, dst, src, 0, k)

RECURSIVE copy_to(_, _, _, _, _, _, _)
\* src[s], ..., src[s+k-1] are copy-constructed into dst[d], ..., dst[d+k-1]; j of
\* them are done; ret is the number done when the copying ends or throws.
copy_to(m, dst, d, src, s, j, k) ==
  IF j = k THEN Result(m, "none", k)
  ELSE The({ IF c.exc # "none" THEN Result(c.m, c.exc, j)
             ELSE copy_to(c.m, dst, d, src, s, j + 1, k)
           : c \in {ElementBase_copy(m, Slot(dst, d + j), Slot(src, s + j))} })

RECURSIVE destroy_set(_, _, _)
\* The elements of buf at the indexes S are destroyed, from the back to the front.
destroy_set(m, buf, S) ==
  IF S = {} THEN m
  ELSE The({ destroy_set(ElementBase_dtor(m, Slot(buf, k)), buf, S \ {k})
           : k \in {CHOOSE k \in S : \A j \in S : j <= k} })

\* The growth of a full container: twice the capacity, one slot for none.
NewCapacity(v) == IF v.capacity = 0 THEN 1 ELSE 2 * v.capacity

\* T(value) or T(std::move(value)) at address q, for the element type of container n;
\* value is at address p.
construct(m, n, q, p, by_move) ==
  IF ~by_move THEN ElementBase_copy(m, q, p)
  ELSE IF NothrowMove(n) THEN Result(ElementBase_move(m, q, p), "none", TRUE)
  ELSE Element_move(m, q, p)

\* The append to a full container n of the value at p, which may be one of its own
\* elements: the value is built in the new buffer first, while the old buffer is
\* whole, and the elements follow; when a step throws, what the new buffer holds is
\* destroyed and the buffer released.
grow_with(m, n, p, by_move) ==
  The({ IF al.exc # "none" THEN Result(al.m, al.exc, FALSE)
        ELSE The({ IF c.exc # "none" THEN discard(c.m, al.ret, 0, c.exc)
                   ELSE The({ IF tr.exc # "none"
                                THEN Result(deallocate(destroy_set(tr.m, al.ret,
                                                                   (0..(tr.ret - 1)) \cup {m.vec[n].size}),
                                                       al.ret),
                                            tr.exc, FALSE)
                              ELSE Result([deallocate(destroy_n(tr.m, m.vec[n].data, m.vec[n].size),
                                                      m.vec[n].data)
                                             EXCEPT !.vec[n].data = al.ret,
                                                    !.vec[n].size = @ + 1,
                                                    !.vec[n].capacity = NewCapacity(m.vec[n])],
                                          "none", TRUE)
                            : tr \in {transfer_n(c.m, n, al.ret, m.vec[n].data, m.vec[n].size)} })
                 : c \in {construct(al.m, n, Slot(al.ret, m.vec[n].size), p, by_move)} })
      : al \in {allocate(m, NewCapacity(m.vec[n]))} })

\* The elements of container n go to a new buffer of newcap slots, by move when their
\* move cannot throw and by copy otherwise; when the allocation or a copy throws, the
\* new buffer is discarded and the container is as it was.
reallocate(m, n, newcap) ==
  The({ IF al.exc # "none" THEN Result(al.m, al.exc, FALSE)
        ELSE The({ IF cp.exc # "none" THEN discard(cp.m, al.ret, cp.ret, cp.exc)
                   ELSE Result([deallocate(destroy_n(cp.m, m.vec[n].data, m.vec[n].size),
                                           m.vec[n].data)
                                  EXCEPT !.vec[n].data = al.ret, !.vec[n].capacity = newcap],
                               "none", TRUE)
                 : cp \in {transfer_n(al.m, n, al.ret, m.vec[n].data, m.vec[n].size)} })
      : al \in {allocate(m, newcap)} })

\* Vector() noexcept.
Vector_ctor(m, n) ==
  Result([m EXCEPT !.vec[n] = [NoVector EXCEPT !.alive = TRUE]], "none", TRUE)

\* Vector(const Vector& other): exactly other.size slots, the elements copied in order.
Vector_copy_ctor(m, n, other) ==
  The({ IF al.exc # "none" THEN Result(al.m, al.exc, FALSE)
        ELSE The({ IF cp.exc # "none" THEN discard(cp.m, al.ret, cp.ret, cp.exc)
                   ELSE Result([cp.m EXCEPT !.vec[n] =
                                  [alive |-> TRUE, data |-> al.ret,
                                   size |-> m.vec[other].size, capacity |-> m.vec[other].size]],
                               "none", TRUE)
                 : cp \in {copy_n(al.m, al.ret, m.vec[other].data, 0, m.vec[other].size)} })
      : al \in {allocate(m, m.vec[other].size)} })

\* Vector(Vector&& other): the buffer changes owner, other is left empty.
Vector_move_ctor(m, n, other) ==
  Result([m EXCEPT !.vec[n] = m.vec[other],
                   !.vec[other] = [NoVector EXCEPT !.alive = TRUE]], "none", TRUE)

\* ~Vector() noexcept: the elements from the back to the front, then the buffer.
Vector_dtor(m, n) ==
  [deallocate(destroy_n(m, m.vec[n].data, m.vec[n].size), m.vec[n].data)
     EXCEPT !.vec[n] = NoVector]

\* operator=(const Vector& other): a copy of other is built aside and then takes the
\* place of the old contents; self-assignment does nothing.
Vector_copy_assign(m, n, other) ==
  IF n = other THEN Result(m, "none", TRUE)
  ELSE The({ IF al.exc # "none" THEN Result(al.m, al.exc, FALSE)
             ELSE The({ IF cp.exc # "none" THEN discard(cp.m, al.ret, cp.ret, cp.exc)
                        ELSE Result([deallocate(destroy_n(cp.m, m.vec[n].data, m.vec[n].size),
                                                m.vec[n].data)
                                       EXCEPT !.vec[n].data = al.ret,
                                              !.vec[n].size = m.vec[other].size,
                                              !.vec[n].capacity = m.vec[other].size],
                                    "none", TRUE)
                      : cp \in {copy_n(al.m, al.ret, m.vec[other].data, 0, m.vec[other].size)} })
           : al \in {allocate(m, m.vec[other].size)} })

\* operator=(Vector&& other): the old contents are destroyed and other's buffer taken;
\* self-assignment does nothing.
Vector_move_assign(m, n, other) ==
  IF n = other THEN Result(m, "none", TRUE)
  ELSE Result([deallocate(destroy_n(m, m.vec[n].data, m.vec[n].size), m.vec[n].data)
                 EXCEPT !.vec[n] = m.vec[other],
                        !.vec[other] = [NoVector EXCEPT !.alive = TRUE]], "none", TRUE)

\* push_back(const T& value), value at address p. With room the element is copied in
\* place; without, a buffer of twice the capacity (one slot for none) receives the
\* copies of the elements and then of value, and the old buffer goes last; when the
\* elements can be moved without a throw, value is copied first and they are moved.
Vector_push_back(m, n, p) ==
  IF m.vec[n].size < m.vec[n].capacity
    THEN The({ IF c.exc # "none" THEN Result(c.m, c.exc, FALSE)
               ELSE Result([c.m EXCEPT !.vec[n].size = @ + 1], "none", TRUE)
             : c \in {ElementBase_copy(m, Slot(m.vec[n].data, m.vec[n].size), p)} })
    ELSE IF NothrowMove(n) THEN grow_with(m, n, p, FALSE)
    ELSE The({ IF al.exc # "none" THEN Result(al.m, al.exc, FALSE)
               ELSE The({ IF cp.exc # "none" THEN discard(cp.m, al.ret, cp.ret, cp.exc)
                          ELSE The({ IF c.exc # "none" THEN discard(c.m, al.ret, cp.ret, c.exc)
                                     ELSE Result([deallocate(destroy_n(c.m, m.vec[n].data, m.vec[n].size),
                                                             m.vec[n].data)
                                                    EXCEPT !.vec[n].data = al.ret,
                                                           !.vec[n].size = @ + 1,
                                                           !.vec[n].capacity = IF m.vec[n].capacity = 0 THEN 1 ELSE 2 * m.vec[n].capacity],
                                                 "none", TRUE)
                                   : c \in {ElementBase_copy(cp.m, Slot(al.ret, cp.ret), p)} })
                        : cp \in {copy_n(al.m, al.ret, m.vec[n].data, 0, m.vec[n].size)} })
             : al \in {allocate(m, IF m.vec[n].capacity = 0 THEN 1 ELSE 2 * m.vec[n].capacity)} })

\* push_back(T&& value), value at address p: the element is move-constructed, in
\* place with room, at the head of the transfer to a larger buffer without.
Vector_push_back_move(m, n, p) ==
  IF m.vec[n].size < m.vec[n].capacity
    THEN The({ IF c.exc # "none" THEN Result(c.m, c.exc, FALSE)
               ELSE Result([c.m EXCEPT !.vec[n].size = @ + 1], "none", TRUE)
             : c \in {construct(m, n, Slot(m.vec[n].data, m.vec[n].size), p, TRUE)} })
    ELSE grow_with(m, n, p, TRUE)

\* A swap that loses the value of its first argument.
swap_nothrow_overwrites(m, lhs, rhs) ==
  [m EXCEPT !.mem.data[lhs] = m.mem.data[rhs]]

\* element.cpp:127-129, swap(ElementWithNonThrowingMove&, ElementWithNonThrowingMove&)
\* noexcept: the values change places.
swap_nothrow(m, lhs, rhs) ==
  [m EXCEPT !.mem.data[lhs] = m.mem.data[rhs], !.mem.data[rhs] = m.mem.data[lhs]]

\* A swap of Elements that leaves both values where they are.
Element_swap_idle(m, lhs, rhs) ==
  The({ IF fip.exc # "none" THEN Result(fip.m, fip.exc, FALSE)
        ELSE Result(fip.m, "none", TRUE)
      : fip \in {fault_injection_point(m)} })

\* element.cpp:122-125, swap(Element&, Element&): the fallible step, then the values
\* change places.
Element_swap(m, lhs, rhs) ==
  The({ IF fip.exc # "none" THEN Result(fip.m, fip.exc, FALSE)
        ELSE Result(swap_nothrow(fip.m, lhs, rhs), "none", TRUE)
      : fip \in {fault_injection_point(m)} })

\* swap(lhs, rhs) as the elements of container n have it.
swap_elements(m, n, lhs, rhs) ==
  IF NothrowMove(n) THEN Result(swap_nothrow(m, lhs, rhs), "none", TRUE)
  ELSE Element_swap(m, lhs, rhs)

RECURSIVE shift_left(_, _, _, _, _)
\* The elements of container n from index k on go d places down, each by a swap with
\* the element it replaces; a swap that throws ends the shift where it is.
shift_left(m, n, k, d, size) ==
  IF k >= size THEN Result(m, "none", TRUE)
  ELSE The({ IF sw.exc # "none" THEN sw
             ELSE shift_left(sw.m, n, k + 1, d, size)
           : sw \in {swap_elements(m, n, Slot(m.vec[n].data, k - d), Slot(m.vec[n].data, k))} })

\* erase(first, last), first at index f and last at index l; erase(pos) is
\* erase(pos, pos + 1). The suffix is swapped down into the gap and the l - f
\* elements then at the back are destroyed, from the back to the front; the buffer
\* stays. ret is the iterator returned, the address of index f.
Vector_erase(m, n, f, l) ==
  IF f = l THEN Result(m, "none", Slot(m.vec[n].data, f))
  ELSE The({ IF sh.exc # "none" THEN sh
             ELSE Result([destroy_set(sh.m, m.vec[n].data,
                                      (m.vec[n].size - (l - f))..(m.vec[n].size - 1))
                            EXCEPT !.vec[n].size = @ - (l - f)],
                         "none", Slot(m.vec[n].data, f))
           : sh \in {shift_left(m, n, l, l - f, m.vec[n].size)} })

RECURSIVE rotate_in(_, _, _, _)
\* The element at index k of buf goes down to index i by swaps with its neighbour.
rotate_in(m, buf, k, i) ==
  IF k <= i THEN m
  ELSE The({ rotate_in(sw, buf, k - 1, i)
           : sw \in {swap_nothrow(m, Slot(buf, k), Slot(buf, k - 1))} })

\* The interior insertion for elements whose move may throw, the copy-based path: a
\* buffer (of the same capacity when there is room, grown otherwise) receives the
\* copies of the prefix, the value, and the copies of the suffix; when a step throws
\* it is discarded with what it holds, and the container is as it was.
rebuild_with(m, n, i, p, by_move) ==
  The({ The({ IF al.exc # "none" THEN Result(al.m, al.exc, FALSE)
              ELSE The({ IF pre.exc # "none" THEN discard(pre.m, al.ret, pre.ret, pre.exc)
                         ELSE The({ IF c.exc # "none" THEN discard(c.m, al.ret, i, c.exc)
                                    ELSE The({ IF suf.exc # "none"
                                                 THEN discard(suf.m, al.ret, i + 1 + suf.ret, suf.exc)
                                               ELSE Result([deallocate(destroy_n(suf.m, m.vec[n].data,
                                                                                 m.vec[n].size),
                                                                       m.vec[n].data)
                                                              EXCEPT !.vec[n].data = al.ret,
                                                                     !.vec[n].size = @ + 1,
                                                                     !.vec[n].capacity = newcap],
                                                           "none", TRUE)
                                             : suf \in {copy_to(c.m, al.ret, i + 1, m.vec[n].data, i, 0,
                                                                m.vec[n].size - i)} })
                                  : c \in {construct(pre.m, n, Slot(al.ret, i), p, by_move)} })
                       : pre \in {copy_to(al.m, al.ret, 0, m.vec[n].data, 0, 0, i)} })
            : al \in {allocate(m, newcap)} })
      : newcap \in {IF m.vec[n].size < m.vec[n].capacity THEN m.vec[n].capacity
                    ELSE NewCapacity(m.vec[n])} })

\* insert(pos, const T& value) and insert(pos, T&& value), pos at index i, value at
\* address p; ret is the iterator returned, the address of the new element. At the
\* end it is push_back.
\* Elements that move and swap without a throw: the value is appended and swapped
\* down to its place. Elements whose move may throw: the copy-based path.
Vector_insert(m, n, i, p, by_move) ==
  IF NothrowMove(n) \/ i = m.vec[n].size
    THEN The({ IF pb.exc # "none" THEN pb
               ELSE Result(rotate_in(pb.m, pb.m.vec[n].data, pb.m.vec[n].size - 1, i), "none",
                           Slot(pb.m.vec[n].data, i))
             : pb \in {IF by_move THEN Vector_push_back_move(m, n, p)
                                  ELSE Vector_push_back(m, n, p)} })
    ELSE The({ IF rb.exc # "none" THEN rb ELSE Result(rb.m, "none", Slot(rb.m.vec[n].data, i))
             : rb \in {rebuild_with(m, n, i, p, by_move)} })

\* pop_back(): the last element is destroyed.
Vector_pop_back(m, n) ==
  Result([ElementBase_dtor(m, Slot(m.vec[n].data, m.vec[n].size - 1))
            EXCEPT !.vec[n].size = @ - 1], "none", TRUE)

\* reserve(new_capacity): nothing unless new_capacity > capacity.
Vector_reserve(m, n, new_capacity) ==
  IF new_capacity <= m.vec[n].capacity THEN Result(m, "none", TRUE)
  ELSE reallocate(m, n, new_capacity)

\* shrink_to_fit(): nothing unless capacity > size; an empty container gives its
\* buffer back and owns none.
Vector_shrink_to_fit(m, n) ==
  IF m.vec[n].capacity = m.vec[n].size THEN Result(m, "none", TRUE)
  ELSE reallocate(m, n, m.vec[n].size)

\* clear() noexcept: the elements from the back to the front; the capacity stays.
Vector_clear(m, n) ==
  Result([destroy_n(m, m.vec[n].data, m.vec[n].size) EXCEPT !.vec[n].size = 0], "none", TRUE)

\* swap(Vector& other) noexcept: buffer, size and capacity change hands.
Vector_swap(m, n, other) ==
  Result([m EXCEPT !.vec[n] = m.vec[other], !.vec[other] = m.vec[n]], "none", TRUE)

\* ------------------------------------------------------ Vector<OrderedElement>
\* ordered-element.h:12-15, OrderedElement(size_t val).
OrderedElement_ctor(m, p, val) ==
  [m EXCEPT !.mem.data[p] = val, !.mem.insertion_order = Append(@, val)]

\* ordered-element.h:17-20, OrderedElement(const OrderedElement& other): the value
\* goes over, other keeps 0.
OrderedElement_copy(m, p, other) ==
  [m EXCEPT !.mem.data[p] = m.mem.data[other], !.mem.data[other] = 0]

\* A destructor that looks for its value at the front of insertion_order.
OrderedElement_dtor_front(m, p) ==
  IF m.mem.data[p] = 0 THEN m
  ELSE The({ FaultInjectionDisable_reset(
               [(IF dg.m.mem.insertion_order # <<>> /\ dg.m.mem.data[p] = Head(dg.m.mem.insertion_order)
                   THEN dg.m
                   ELSE FAIL_CHECK(dg.m, "Elements must be destroyed in reverse order of insertion"))
                  EXCEPT !.mem.insertion_order = IF @ = <<>> THEN @ ELSE Tail(@),
                         !.mem.data[p] = Raw],
               dg.ret)
           : dg \in {FaultInjectionDisable_ctor(m)} })

\* ordered-element.h:22-24 and 34-44, ~OrderedElement(): an object that holds a value
\* must hold the one inserted last, which is taken off insertion_order.
OrderedElement_dtor(m, p) ==
  IF m.mem.data[p] = 0 THEN m
  ELSE The({ FaultInjectionDisable_reset(
               [(IF dg.m.mem.insertion_order # <<>>
                      /\ dg.m.mem.data[p] = dg.m.mem.insertion_order[Len(dg.m.mem.insertion_order)]
                   THEN dg.m
                   ELSE FAIL_CHECK(dg.m, "Elements must be destroyed in reverse order of insertion"))
                  EXCEPT !.mem.insertion_order = IF @ = <<>> THEN @ ELSE SubSeq(@, 1, Len(@) - 1),
                         !.mem.data[p] = Raw],
               dg.ret)
           : dg \in {FaultInjectionDisable_ctor(m)} })

\* The member functions of Vector<OrderedElement> the test of the destruction order
\* uses, as the specification describes them for every element type; OrderedElement
\* has no move constructor, so its elements are always copied.
RECURSIVE ordered_destroy_n(_, _, _)
\* The elements buf[k-1], ..., buf[0] are destroyed, from the back to the front.
ordered_destroy_n(m, buf, k) ==
  IF k = 0 THEN m
  ELSE The({ ordered_destroy_n(d, buf, k - 1)
           : d \in {OrderedElement_dtor(m, Slot(buf, k - 1))} })

RECURSIVE ordered_copy_n(_, _, _, _, _)
\* src[i], ..., src[k-1] are copy-constructed into dst, in order.
ordered_copy_n(m, dst, src, i, k) ==
  IF i = k THEN m
  ELSE The({ ordered_copy_n(c, dst, src, i + 1, k)
           : c \in {OrderedElement_copy(m, Slot(dst, i), Slot(src, i))} })

\* The elements of container n, and value first when there is one (at address p), go
\* to a new buffer of newcap slots; the old elements are destroyed and the old buffer
\* released.
ordered_reallocate(m, n, newcap, with_value, p) ==
  The({ IF al.exc # "none" THEN Result(al.m, al.exc, FALSE)
        ELSE The({ Result([deallocate(ordered_destroy_n(cp, m.vec[n].data, m.vec[n].size),
                                      m.vec[n].data)
                             EXCEPT !.vec[n].data = al.ret,
                                    !.vec[n].size = IF with_value THEN @ + 1 ELSE @,
                                    !.vec[n].capacity = newcap],
                          "none", TRUE)
                 : cp \in {ordered_copy_n(IF with_value
                                            THEN OrderedElement_copy(al.m, Slot(al.ret, m.vec[n].size), p)
                                            ELSE al.m,
                                          al.ret, m.vec[n].data, 0, m.vec[n].size)} })
      : al \in {allocate(m, newcap)} })

\* push_back(T&& value) of Vector<OrderedElement>, value at address p.
OrderedVector_push_back(m, n, p) ==
  IF m.vec[n].size < m.vec[n].capacity
    THEN Result([OrderedElement_copy(m, Slot(m.vec[n].data, m.vec[n].size), p)
                   EXCEPT !.vec[n].size = @ + 1], "none", TRUE)
    ELSE ordered_reallocate(m, n, NewCapacity(m.vec[n]), TRUE, p)

\* reserve(new_capacity) of Vector<OrderedElement>.
OrderedVector_reserve(m, n, new_capacity) ==
  IF new_capacity <= m.vec[n].capacity THEN Result(m, "none", TRUE)
  ELSE ordered_reallocate(m, n, new_capacity, FALSE, stack_x)

\* clear() of Vector<OrderedElement>.
OrderedVector_clear(m, n) ==
  Result([ordered_destroy_n(m, m.vec[n].data, m.vec[n].size) EXCEPT !.vec[n].size = 0],
         "none", TRUE)

\* ~Vector() of Vector<OrderedElement>.
OrderedVector_dtor(m, n) ==
  [deallocate(ordered_destroy_n(m, m.vec[n].data, m.vec[n].size), m.vec[n].data)
     EXCEPT !.vec[n] = NoVector]

\* ------------------------------------------------------------------ faulty_run
\* fault-injection.cpp:166-168: the activation assertion, a fresh context.
faulty_run_begin(m) ==
  IF m.fi.context THEN Abort(m, "assert !context")
  ELSE [m EXCEPT !.fi.context = TRUE, !.fi.ctx = FaultInjectionContext,
                 !.fi.pass = 1, !.fi.calls = 0, !.fi.faults = {}]

\* A resize that never cuts the vector.
skip_ranges_resize_keeps(m, n) ==
  IF n <= Len(m.fi.ctx.skip_ranges)
    THEN Result(m, "none", TRUE)
    ELSE The({ IF r.exc # "none" THEN Result(r.m, r.exc, FALSE)
               ELSE Result([r.m EXCEPT
                       !.fi.ctx.skip_ranges = @ \o [i \in 1..(n - Len(@)) |-> 0],
                       !.fi.ctx.capacity = IF n > @ THEN n ELSE @], "none", TRUE)
             : r \in {IF n > m.fi.ctx.capacity
                        THEN Nested(m, FaultInjectionAllocator_allocate(m, n))
                        ELSE Result(m, "none", nullptr)} })

\* std::vector::resize as fault-injection.cpp:175 uses it: it cuts the vector, or
\* fills it with zeros (asking the allocator for room when it has none).
skip_ranges_resize(m, n) ==
  IF n <= Len(m.fi.ctx.skip_ranges)
    THEN Result([m EXCEPT !.fi.ctx.skip_ranges = SubSeq(@, 1, n)], "none", TRUE)
    ELSE The({ IF r.exc # "none" THEN Result(r.m, r.exc, FALSE)
               ELSE Result([r.m EXCEPT
                       !.fi.ctx.skip_ranges = @ \o [i \in 1..(n - Len(@)) |-> 0],
                       !.fi.ctx.capacity = IF n > @ THEN n ELSE @], "none", TRUE)
             : r \in {IF n > m.fi.ctx.capacity
                        THEN Nested(m, FaultInjectionAllocator_allocate(m, n))
                        ELSE Result(m, "none", nullptr)} })

\* A handler that forgets ctx.error_index = 0.
next_pass_keeps_index(m, was_disabled) ==
  IF Len(m.fi.ctx.skip_ranges) = 0 THEN Abort(m, "back() of an empty skip_ranges")
  ELSE IF ~m.fi.ctx.fault_registered THEN Abort(m, "assert ctx.fault_registered")
  ELSE FaultInjectionDisable_reset(
         [m EXCEPT !.fi.ctx.skip_ranges[Len(m.fi.ctx.skip_ranges)] = @ + 1,
                   !.fi.ctx.skip_index = 0,
                   !.fi.ctx.fault_registered = FALSE,
                   !.fi.pass = @ + 1, !.fi.calls = 0, !.fi.faults = {}],
         was_disabled)

\* A handler that forgets ++ctx.skip_ranges.back().
next_pass_same_point(m, was_disabled) ==
  IF Len(m.fi.ctx.skip_ranges) = 0 THEN Abort(m, "back() of an empty skip_ranges")
  ELSE IF ~m.fi.ctx.fault_registered THEN Abort(m, "assert ctx.fault_registered")
  ELSE FaultInjectionDisable_reset(
         [m EXCEPT !.fi.ctx.error_index = 0,
                   !.fi.ctx.skip_index = 0,
                   !.fi.ctx.fault_registered = FALSE,
                   !.fi.pass = @ + 1, !.fi.calls = 0, !.fi.faults = {}],
         was_disabled)

\* fault-injection.cpp:176-181: the last entry counts one more success, the indices
\* start again. back() of an empty vector is undefined behaviour.
next_pass(m, was_disabled) ==
  IF Len(m.fi.ctx.skip_ranges) = 0 THEN Abort(m, "back() of an empty skip_ranges")
  ELSE IF ~m.fi.ctx.fault_registered THEN Abort(m, "assert ctx.fault_registered")
  ELSE FaultInjectionDisable_reset(
         [m EXCEPT !.fi.ctx.skip_ranges[Len(m.fi.ctx.skip_ranges)] = @ + 1,
                   !.fi.ctx.error_index = 0,
                   !.fi.ctx.skip_index = 0,
                   !.fi.ctx.fault_registered = FALSE,
                   !.fi.pass = @ + 1, !.fi.calls = 0, !.fi.faults = {}],
         was_disabled)

\* fault-injection.cpp:172-182, the handler of a failure that escaped f.
faulty_run_catch(m) ==
  The({ The({ IF rs.exc # "none" THEN Abort(rs.m, "exception in the handler")
              ELSE next_pass(rs.m, dg.ret)
            : rs \in {skip_ranges_resize(dg.m, dg.m.fi.ctx.error_index)} })
      : dg \in {FaultInjectionDisable_ctor(m)} })

\* An exit that forgets context = nullptr.
faulty_run_end_keeps_context(m) ==
  IF m.fi.ctx.fault_registered THEN Abort(m, "assert !ctx.fault_registered")
  ELSE [m EXCEPT !.fi.calls = 0, !.fi.faults = {}]

\* fault-injection.cpp:183-186: the normal exit of the loop.
faulty_run_end(m) ==
  IF m.fi.ctx.fault_registered THEN Abort(m, "assert !ctx.fault_registered")
  ELSE [m EXCEPT !.fi.context = FALSE, !.fi.ctx = FaultInjectionContext,
                 !.fi.calls = 0, !.fi.faults = {}]

\* ---------------------------------------------------------------- the machine
Machine(t) ==
  [ fi |-> [fi[t] EXCEPT !.checks = 0, !.nested = 0], heap |-> heap, mem |-> mem, vec |-> vec ]

\* Commit with context and disabled as plain globals, shared by the threads.
Commit_shared(t, m) ==
  /\ fi' = [u \in Threads |-> m.fi]
  /\ heap' = m.heap
  /\ mem' = m.mem
  /\ vec' = m.vec

Commit(t, m) ==
  /\ fi' = [fi EXCEPT ![t] = m.fi]
  /\ heap' = m.heap
  /\ mem' = m.mem
  /\ vec' = m.vec

Event(t, op, exc, arg) == [t |-> t, op |-> op, exc |-> exc, arg |-> arg]

\* A marker object of the program: its member was_disabled; frame is the function
\* whose scope owns it ("test" outside faulty_run, "f" inside the operation); entry is
\* the flag before it was built, extent is TRUE until its own first reset(), and
\* crossed records a reset(), inside its extent, of a marker built before it.
Marker(was_disabled, frame, entry) ==
  [ was_disabled |-> was_disabled, frame |-> frame, entry |-> entry,
    extent |-> TRUE, crossed |-> FALSE ]

RECURSIVE unwind(_, _)
\* The destructors (fault-injection.cpp:198-200) of the markers f still holds, newest
\* first, as f is left: each restores its was_disabled.
unwind(m, ms) ==
  IF ms = <<>> \/ ms[Len(ms)].frame # "f" THEN m
  ELSE unwind(FaultInjectionDisable_reset(m, ms[Len(ms)].was_disabled), SubSeq(ms, 1, Len(ms) - 1))

RECURSIVE unwound(_)
unwound(ms) ==
  IF ms = <<>> \/ ms[Len(ms)].frame # "f" THEN ms ELSE unwound(SubSeq(ms, 1, Len(ms) - 1))

\* The operation f leaves with the result r of a step: with an exception in flight
\* f's markers are destroyed and control reaches the handler of faulty_run
\* (fault-injection.cpp:172); otherwise f goes on at step nextip.
Leave(t, r, op, arg, nextip) ==
  \E m1 \in {IF r.exc # "none" THEN unwind(r.m, markers[t]) ELSE r.m} :
    /\ Commit(t, m1)
    /\ markers' = IF r.exc # "none" THEN [markers EXCEPT ![t] = unwound(@)] ELSE markers
    /\ pc' = [pc EXCEPT ![t] = IF m1.fi.abort # "" THEN "abort"
                               ELSE IF r.exc # "none" /\ @ = "f" THEN "catch" ELSE @]
    /\ ip' = [ip EXCEPT ![t] = IF r.exc # "none" THEN @ ELSE nextip]
    /\ ev' = Event(t, op, r.exc, arg)
    /\ UNCHANGED prog

\* A reset that leaves the counters of the earlier calls standing.
reset_counters_keeps(m) ==
  m

\* element.cpp:58-61, as the tests call it before the calls they measure.
reset_counters(m) == [m EXCEPT !.mem.copy_counter = 0, !.mem.move_counter = 0]

\* The end of the scope of f: y, x, o, c, b and a are destroyed, the youngest first.
destroy_locals(m) ==
  The({ The({ IF mb.vec["a"].alive THEN Vector_dtor(mb, "a") ELSE mb
            : mb \in {The({ IF mc.vec["b"].alive THEN Vector_dtor(mc, "b") ELSE mc
                           : mc \in {The({ IF mo.vec["c"].alive THEN Vector_dtor(mo, "c") ELSE mo
                                          : mo \in {IF mx.vec["o"].alive
                                                      THEN OrderedVector_dtor(mx, "o") ELSE mx} })} })} })
      : mx \in {The({ IF stack_x \in my.mem.instances THEN ElementBase_dtor(my, stack_x) ELSE my
                     : my \in {IF stack_y \in m.mem.instances
                                 THEN ElementBase_dtor(m, stack_y) ELSE m} })} })

\* ------------------------------------------- faulty_run over a fixed operation
\* The operation f is a sequence of steps, the same in every pass:
\*   "point"        fault_injection_point();
\*   "catch_point"  try { fault_injection_point(); } catch (...) {}
\*   "quiet_point"  { FaultInjectionDisable dg; fault_injection_point(); }
StepKinds == {"point", "catch_point", "quiet_point"}

Programs == UNION {[1..n -> StepKinds] : n \in 0..MaxSteps}

\* fault-injection.cpp:165-168, faulty_run(f) up to the first call of f.
FaultyRun(t, p) ==
  /\ pc[t] = "idle"
  /\ \E m \in {faulty_run_begin(Machine(t))} :
       /\ Commit(t, m)
       /\ pc' = [pc EXCEPT ![t] = IF m.fi.abort # "" THEN "abort" ELSE "f"]
  /\ prog' = [prog EXCEPT ![t] = p]
  /\ ip' = [ip EXCEPT ![t] = 0]
  /\ ev' = Event(t, "faulty_run", "none", Len(p))
  /\ UNCHANGED markers

AtStep(t, kind) ==
  /\ pc[t] = "f"
  /\ ip[t] < Len(prog[t])
  /\ prog[t][ip[t] + 1] = kind

Point(t) ==
  /\ AtStep(t, "point")
  /\ \E r \in {fault_injection_point(Machine(t))} :
       Leave(t, r, "point", 0, ip[t] + 1)

\* The handler of the try block swallows whatever the point throws.
CatchPoint(t) ==
  /\ AtStep(t, "catch_point")
  /\ \E r \in {fault_injection_point(Machine(t))} :
       \E q \in {Result(r.m, "none", FALSE)} :
         Leave(t, q, "catch_point", r.exc, ip[t] + 1)

QuietPoint(t) ==
  /\ AtStep(t, "quiet_point")
  /\ \E dg \in {FaultInjectionDisable_ctor(Machine(t))} :
       \E r \in {fault_injection_point(dg.m)} :
         \E q \in {Result(FaultInjectionDisable_reset(r.m, dg.ret), r.exc, FALSE)} :
           Leave(t, q, "quiet_point", 0, ip[t] + 1)

\* fault-injection.cpp:172-182: the handler, then the next pass.
Handler(t) ==
  /\ pc[t] = "catch"
  /\ \E m \in {faulty_run_catch(Machine(t))} :
       /\ Commit(t, m)
       /\ pc' = [pc EXCEPT ![t] = IF m.fi.abort # "" THEN "abort" ELSE "f"]
  /\ ip' = [ip EXCEPT ![t] = 0]
  /\ ev' = Event(t, "handler", "none", fi[t].ctx.skip_ranges)
  /\ UNCHANGED <<markers, prog>>

\* fault-injection.cpp:183-186: f returned (its markers destroyed at the end of its
\* scope); the loop and faulty_run end.
Return(t) ==
  /\ pc[t] = "f"
  /\ ip[t] = Len(prog[t])
  /\ \E m0 \in {unwind(destroy_locals(Machine(t)), markers[t])} :
       \E m \in {faulty_run_end(m0)} :
         /\ Commit(t, m)
         /\ pc' = [pc EXCEPT ![t] = IF m.fi.abort # "" THEN "abort" ELSE "idle"]
  /\ markers' = [markers EXCEPT ![t] = unwound(@)]
  /\ ev' = Event(t, "return", "none", 0)
  /\ UNCHANGED <<prog, ip>>

Init ==
  /\ fi = [t \in Threads |-> ThreadLocal]
  /\ markers = [t \in Threads |-> <<>>]
  /\ pc = [t \in Threads |-> "idle"]
  /\ prog = [t \in Threads |-> <<>>]
  /\ ip = [t \in Threads |-> 0]
  /\ heap = [b \in BufIds |-> 0]
  /\ mem = Memory
  /\ vec = [n \in Containers |-> NoVector]
  /\ ev = Event(0, "init", "none", 0)

Next ==
  \/ \E p \in Programs : FaultyRun(MainThread, p)
  \/ Point(MainThread)
  \/ CatchPoint(MainThread)
  \/ QuietPoint(MainThread)
  \/ Handler(MainThread)
  \/ Return(MainThread)

Spec == Init /\ [][Next]_vars

\* faulty_run is sequential code on its thread: the step of the operation that is
\* next, the handler of a failure in flight and the exit of the loop are each taken
\* once control is there. Whether a test calls faulty_run again is up to the test.
Fairness ==
  /\ WF_vars(Point(MainThread))
  /\ WF_vars(CatchPoint(MainThread))
  /\ WF_vars(QuietPoint(MainThread))
  /\ WF_vars(Handler(MainThread))
  /\ WF_vars(Return(MainThread))

SpecLive == Init /\ [][Next]_vars /\ Fairness


\* ------------------------------------------------ the harness in free use
\* A thread uses the harness as the tests do, in any order: it builds, resets and
\* destroys markers, makes checks, asks for memory and gives it back, inside the
\* operation of a faulty_run (pc = "f") or outside any (pc = "idle").
Running(t) == pc[t] \in {"idle", "f"}

Frame(t) == IF pc[t] = "f" THEN "f" ELSE "test"

\* A call of fault_injection_point() (fault-injection.cpp:158), as every fallible
\* step of an element makes it.
Check(t) ==
  /\ Running(t)
  /\ fi[t].calls < MaxCalls
  /\ \E r \in {fault_injection_point(Machine(t))} :
       Leave(t, r, "check", 0, ip[t])

\* FaultInjectionDisable dg; (fault-injection.cpp:189-192)
MarkerCtor(t) ==
  /\ Running(t)
  /\ Len(markers[t]) < MaxMarkers
  /\ \E dg \in {FaultInjectionDisable_ctor(Machine(t))} :
       /\ Commit(t, dg.m)
       /\ markers' = [markers EXCEPT ![t] = Append(@, Marker(dg.ret, Frame(t), fi[t].disabled))]
  /\ ev' = Event(t, "ctor", "none", fi[t].disabled)
  /\ UNCHANGED <<pc, prog, ip>>

\* dg.reset() on a live marker (fault-injection.cpp:194-196).
MarkerReset(t, i) ==
  /\ Running(t)
  /\ i \in 1..Len(markers[t])
  /\ Commit(t, FaultInjectionDisable_reset(Machine(t), markers[t][i].was_disabled))
  /\ markers' = [markers EXCEPT ![t] =
       [j \in 1..Len(@) |->
          IF j = i THEN [@[j] EXCEPT !.extent = FALSE]
          ELSE IF j > i /\ @[j].extent THEN [@[j] EXCEPT !.crossed = TRUE]
          ELSE @[j]]]
  /\ ev' = Event(t, "reset", "none", markers[t][i].entry)
  /\ UNCHANGED <<pc, prog, ip>>

\* The end of the scope of the newest marker of the running function
\* (fault-injection.cpp:198-200).
MarkerDtor(t) ==
  /\ Running(t)
  /\ markers[t] # <<>>
  /\ markers[t][Len(markers[t])].frame = Frame(t)
  /\ Commit(t, FaultInjectionDisable_reset(Machine(t), markers[t][Len(markers[t])].was_disabled))
  /\ markers' = [markers EXCEPT ![t] = SubSeq(@, 1, Len(@) - 1)]
  /\ ev' = Event(t, "dtor", "none", markers[t][Len(markers[t])].entry)
  /\ UNCHANGED <<pc, prog, ip>>

Held == {b \in BufIds : heap[b] # 0}

\* p = operator new(count), in one of its forms.
New(t, form) ==
  /\ Running(t)
  /\ fi[t].calls < MaxCalls
  /\ Cardinality(Held) < MaxBlocks
  /\ \E r \in {operator_new(Machine(t), form, 1)} :
       Leave(t, r, "new", form, ip[t])

\* operator delete(p), in one of its forms, on a block the program holds.
Delete(t, form, b) ==
  /\ Running(t)
  /\ heap[b] # 0
  /\ \E m \in {operator_delete(Machine(t), form, b)} :
       Leave(t, Result(m, "none", FALSE), "delete", form, ip[t])

NextHarness ==
  \/ FaultyRun(MainThread, <<>>)
  \/ Check(MainThread)
  \/ MarkerCtor(MainThread)
  \/ \E i \in 1..MaxMarkers : MarkerReset(MainThread, i)
  \/ MarkerDtor(MainThread)
  \/ \E form \in NewForms : New(MainThread, form)
  \/ \E form \in DeleteForms, b \in BufIds : Delete(MainThread, form, b)
  \/ Handler(MainThread)
  \/ Return(MainThread)

SpecHarness == Init /\ [][NextHarness]_vars


\* ------------------------------------------- runs over a varying operation
\* The operation of a faulty_run need not be the same in every pass: in each pass it
\* makes any number of checks, lets their faults escape or swallows them in a try
\* block, and returns when it likes; it may call faulty_run itself.
\* try { fault_injection_point(); } catch (...) {} inside the operation.
CaughtCheck(t) ==
  /\ pc[t] = "f"
  /\ fi[t].calls < MaxCalls
  /\ \E r \in {fault_injection_point(Machine(t))} :
       \E q \in {Result(r.m, "none", FALSE)} :
         Leave(t, q, "caught_check", r.exc, ip[t])

\* faulty_run called from inside the operation of a faulty_run: the activation
\* assertion (fault-injection.cpp:166).
Reenter(t) ==
  /\ pc[t] = "f"
  /\ \E m \in {faulty_run_begin(Machine(t))} :
       /\ Commit(t, m)
       /\ pc' = [pc EXCEPT ![t] = IF m.fi.abort # "" THEN "abort" ELSE "f"]
  /\ ev' = Event(t, "faulty_run", "none", 0)
  /\ UNCHANGED <<markers, prog, ip>>

NextRuns ==
  \/ FaultyRun(MainThread, <<>>)
  \/ Check(MainThread)
  \/ CaughtCheck(MainThread)
  \/ Reenter(MainThread)
  \/ Handler(MainThread)
  \/ Return(MainThread)

SpecRuns == Init /\ [][NextRuns]_vars

\* --------------------------------------------------- the harness on several threads
\* Every thread uses the harness on its own account: it starts exhaustive runs, makes
\* checks inside and outside them, builds and destroys markers; the steps of the
\* threads interleave in any order. context and disabled are thread_local
\* (fault-injection.cpp:58-59), the context object is a local of faulty_run
\* (fault-injection.cpp:167).
\* A thread makes one enabled check per pass and holds one marker at a time.
ThreadCheck(t) ==
  /\ fi[t].calls = 0
  /\ Check(t)

ThreadMarker(t) ==
  /\ markers[t] = <<>>
  /\ MarkerCtor(t)

NextThreads ==
  \E t \in Threads :
    \/ FaultyRun(t, <<>>)
    \/ ThreadCheck(t)
    \/ ThreadMarker(t)
    \/ MarkerDtor(t)
    \/ Handler(t)
    \/ Return(t)

SpecThreads == Init /\ [][NextThreads]_vars

\* ------------------------------------------- the container inside faulty_run
\* The operation f of a test (tests.cpp:125-138, 1169-1188, 1286-1343): inside
\* faulty_run it declares the containers a and b and the element x, builds them up,
\* under a marker dg or not, and calls the member functions, in any order. A call
\* that throws leaves f: its locals are destroyed on the way to the handler.
\* f is still to make the call under test: no enabled check was made in this pass
\* (the calls of the set-up, under the marker, make none).
InF(t) ==
  /\ pc[t] = "f"
  /\ fi[t].calls = 0

Alive(n) == vec[n].alive

\* The call returned, or threw: then f is being left (pc = "unwinding") and the state
\* the call left behind is what the guards of the test compare.
LeaveCall(t, r, op, arg) ==
  /\ Commit(t, r.m)
  /\ pc' = [pc EXCEPT ![t] = IF r.m.fi.abort # "" THEN "abort"
                             ELSE IF r.exc # "none" THEN "unwinding" ELSE "f"]
  /\ ev' = Event(t, op, r.exc, arg)
  /\ UNCHANGED <<markers, prog, ip>>

\* Vector<Element> n;
DefaultCtor(t, n) ==
  /\ InF(t)
  /\ ~Alive(n)
  /\ \E r \in {Vector_ctor(reset_counters(Machine(t)), n)} :
       LeaveCall(t, r, "Vector", <<n>>)

\* Vector<Element> n{other};
CopyCtor(t, n, other) ==
  /\ InF(t)
  /\ ~Alive(n) /\ Alive(other)
  /\ \E r \in {Vector_copy_ctor(reset_counters(Machine(t)), n, other)} :
       LeaveCall(t, r, "copy_ctor", <<n, other>>)

\* Vector<Element> n{std::move(other)};
MoveCtor(t, n, other) ==
  /\ InF(t)
  /\ ~Alive(n) /\ Alive(other)
  /\ \E r \in {Vector_move_ctor(reset_counters(Machine(t)), n, other)} :
       LeaveCall(t, r, "move_ctor", <<n, other>>)

\* n = std::as_const(other);
CopyAssign(t, n, other) ==
  /\ InF(t)
  /\ Alive(n) /\ Alive(other)
  /\ \E r \in {Vector_copy_assign(reset_counters(Machine(t)), n, other)} :
       LeaveCall(t, r, "copy_assign", <<n, other>>)

\* n = std::move(other);
MoveAssign(t, n, other) ==
  /\ InF(t)
  /\ Alive(n) /\ Alive(other)
  /\ \E r \in {Vector_move_assign(reset_counters(Machine(t)), n, other)} :
       LeaveCall(t, r, "move_assign", <<n, other, vec[n].size>>)

\* { Element x = v; n.push_back(x); } as tests.cpp:1177-1185 do it, with x built
\* while injection is disabled and v the value the tests give the element of that
\* index; x is destroyed at the end of the block when the call returned, and during
\* the unwinding when it threw. The doubled capacity stays within the modelled blocks.
PushBack(t, n) ==
  /\ InF(t)
  /\ Alive(n)
  /\ vec[n].size < vec[n].capacity \/ 2 * vec[n].capacity <= MaxCap
  /\ \E dg \in {FaultInjectionDisable_ctor(reset_counters(Machine(t)))} :
       \E x \in {ElementBase_int(dg.m, stack_x, vec[n].size + 1)} :
         \E r \in {Vector_push_back(FaultInjectionDisable_reset(x.m, dg.ret), n, stack_x)} :
           \E q \in {IF r.exc # "none" THEN r
                     ELSE Result(ElementBase_dtor(r.m, stack_x), "none", TRUE)} :
             LeaveCall(t, q, "push_back", <<n>>)

\* n.pop_back(); on a container that is not empty.
PopBack(t, n) ==
  /\ InF(t)
  /\ Alive(n)
  /\ vec[n].size > 0
  /\ \E r \in {Vector_pop_back(reset_counters(Machine(t)), n)} :
       LeaveCall(t, r, "pop_back", <<n, vec[n].size>>)

\* n.reserve(k);
Reserve(t, n, k) ==
  /\ InF(t)
  /\ Alive(n)
  /\ \E r \in {Vector_reserve(reset_counters(Machine(t)), n, k)} :
       LeaveCall(t, r, "reserve", <<n, k>>)

\* n.shrink_to_fit();
ShrinkToFit(t, n) ==
  /\ InF(t)
  /\ Alive(n)
  /\ \E r \in {Vector_shrink_to_fit(reset_counters(Machine(t)), n)} :
       LeaveCall(t, r, "shrink_to_fit", <<n>>)

\* n.clear();
Clear(t, n) ==
  /\ InF(t)
  /\ Alive(n)
  /\ \E r \in {Vector_clear(reset_counters(Machine(t)), n)} :
       LeaveCall(t, r, "clear", <<n, vec[n].size>>)

\* n.swap(other);
Swap(t, n, other) ==
  /\ InF(t)
  /\ Alive(n) /\ Alive(other)
  /\ \E r \in {Vector_swap(reset_counters(Machine(t)), n, other)} :
       LeaveCall(t, r, "swap", <<n, other>>)

\* The exception leaves f: the locals and the markers of f are destroyed, and the
\* handler of faulty_run (fault-injection.cpp:172) is next.
Unwind(t) ==
  /\ pc[t] = "unwinding"
  /\ \E m \in {unwind(destroy_locals(Machine(t)), markers[t])} :
       /\ Commit(t, m)
       /\ pc' = [pc EXCEPT ![t] = IF m.fi.abort # "" THEN "abort" ELSE "catch"]
  /\ markers' = [markers EXCEPT ![t] = unwound(@)]
  /\ ev' = Event(t, "unwind", "none", 0)
  /\ UNCHANGED <<prog, ip>>

\* FaultInjectionDisable dg; as the first statement of f, and dg.reset();
SetupBegin(t) ==
  /\ pc[t] = "f"
  /\ ev.op \in {"faulty_run", "handler"}
  /\ MarkerCtor(t)

SetupEnd(t) ==
  /\ pc[t] = "f"
  /\ Len(markers[t]) = 1
  /\ markers[t][1].extent
  /\ MarkerReset(t, 1)

NextVec ==
  \/ FaultyRun(MainThread, <<>>)
  \/ SetupBegin(MainThread)
  \/ SetupEnd(MainThread)
  \/ \E n \in Names : DefaultCtor(MainThread, n)
  \/ \E n, other \in Names : CopyCtor(MainThread, n, other)
  \/ \E n, other \in Names : MoveCtor(MainThread, n, other)
  \/ \E n, other \in Names : CopyAssign(MainThread, n, other)
  \/ \E n, other \in Names : MoveAssign(MainThread, n, other)
  \/ \E n \in Names : PushBack(MainThread, n)
  \/ \E n \in Names : PopBack(MainThread, n)
  \/ \E n \in Names, k \in 0..MaxCap : Reserve(MainThread, n, k)
  \/ \E n \in Names : ShrinkToFit(MainThread, n)
  \/ \E n \in Names : Clear(MainThread, n)
  \/ \E n, other \in Names : Swap(MainThread, n, other)
  \/ Unwind(MainThread)
  \/ Handler(MainThread)
  \/ Return(MainThread)

SpecVec == Init /\ [][NextVec]_vars


\* --------------------------------------------- the elements inside faulty_run
\* The operation f handles two elements of its own, x and y, as the tests do with
\* theirs: it builds x from an int, builds y as a copy or by a move of x, assigns by
\* move, asks operator new for memory; it may hold a FaultInjectionMoveThrowDisable
\* (tests.cpp:1222). An exception leaves f as in the tests of the container.
MoveMarkerCtor(t) ==
  /\ pc[t] = "f"
  /\ fi[t].mdg = <<>>
  /\ LeaveCall(t, Result(FaultInjectionMoveThrowDisable_ctor(Machine(t)), "none", TRUE),
               "mdg", <<>>)

MoveMarkerDtor(t) ==
  /\ pc[t] = "f"
  /\ fi[t].mdg # <<>>
  /\ LeaveCall(t, Result(FaultInjectionMoveThrowDisable_reset(Machine(t)), "none", TRUE),
               "~mdg", <<>>)

InElements(t) ==
  /\ pc[t] = "f"
  /\ fi[t].calls < MaxCalls

\* Element x = v;
ElementInt(t, v) ==
  /\ InElements(t)
  /\ stack_x \notin mem.instances
  /\ \E r \in {ElementBase_int(reset_counters(Machine(t)), stack_x, v)} :
       LeaveCall(t, r, "element", <<v>>)

\* Element y{x};
ElementCopy(t) ==
  /\ InElements(t)
  /\ stack_x \in mem.instances /\ stack_y \notin mem.instances
  /\ \E r \in {ElementBase_copy(reset_counters(Machine(t)), stack_y, stack_x)} :
       LeaveCall(t, r, "element_copy", <<>>)

\* Element y{std::move(x)};
ElementMove(t) ==
  /\ InElements(t)
  /\ stack_x \in mem.instances /\ stack_y \notin mem.instances
  /\ \E r \in {Element_move(reset_counters(Machine(t)), stack_y, stack_x)} :
       LeaveCall(t, r, "element_move", <<>>)

\* y = std::move(x);
ElementMoveAssign(t) ==
  /\ InElements(t)
  /\ stack_x \in mem.instances /\ stack_y \in mem.instances
  /\ \E r \in {Element_move_assign(reset_counters(Machine(t)), stack_y, stack_x)} :
       LeaveCall(t, r, "element_move_assign", <<>>)

\* The end of the scope of y.
ElementDtor(t) ==
  /\ pc[t] = "f"
  /\ stack_y \in mem.instances
  /\ LeaveCall(t, Result(ElementBase_dtor(Machine(t), stack_y), "none", TRUE), "~element", <<>>)

\* The exception leaves f: a live FaultInjectionMoveThrowDisable of f is destroyed with
\* the other locals.
UnwindElements(t) ==
  /\ pc[t] = "unwinding"
  /\ \E m \in {unwind(destroy_locals(IF fi[t].mdg # <<>>
                                       THEN FaultInjectionMoveThrowDisable_reset(Machine(t))
                                       ELSE Machine(t)), markers[t])} :
       /\ Commit(t, m)
       /\ pc' = [pc EXCEPT ![t] = IF m.fi.abort # "" THEN "abort" ELSE "catch"]
  /\ markers' = [markers EXCEPT ![t] = unwound(@)]
  /\ ev' = Event(t, "unwind", "none", 0)
  /\ UNCHANGED <<prog, ip>>

\* f returns: its FaultInjectionMoveThrowDisable, if alive, is destroyed first.
ReturnElements(t) ==
  /\ fi[t].mdg = <<>>
  /\ Return(t)

NextElements ==
  \/ FaultyRun(MainThread, <<>>)
  \/ MoveMarkerCtor(MainThread)
  \/ MoveMarkerDtor(MainThread)
  \/ \E v \in Values : ElementInt(MainThread, v)
  \/ ElementCopy(MainThread)
  \/ ElementMove(MainThread)
  \/ ElementMoveAssign(MainThread)
  \/ ElementDtor(MainThread)
  \/ \E form \in NewForms : New(MainThread, form)
  \/ \E form \in DeleteForms, b \in BufIds : Delete(MainThread, form, b)
  \/ UnwindElements(MainThread)
  \/ Handler(MainThread)
  \/ ReturnElements(MainThread)

SpecElements == Init /\ [][NextElements]_vars

\* ------------------------------------ one container, appended to and inserted into
\* The operation f of the tests of push_back and insert: one container, a
\* Vector<Element> or a Vector<ElementWithNonThrowingMove>, filled while injection is
\* disabled and then appended to or inserted into, from the local x or from one of
\* its own elements.
Seqs == {"a", "c"}

SeqCtor(t, n) ==
  /\ \A o \in Containers : ~Alive(o)
  /\ DefaultCtor(t, n)

\* The capacity the call needs stays within the modelled blocks.
Fits(n) == vec[n].size < vec[n].capacity \/ NewCapacity(vec[n]) <= MaxCap

\* { T x = v; n.push_back(std::move(x)); }
PushBackMove(t, n) ==
  /\ InF(t)
  /\ Alive(n)
  /\ Fits(n)
  /\ \E dg \in {FaultInjectionDisable_ctor(reset_counters(Machine(t)))} :
       \E x \in {ElementBase_int(dg.m, stack_x, vec[n].size + 1)} :
         \E r \in {Vector_push_back_move(FaultInjectionDisable_reset(x.m, dg.ret), n, stack_x)} :
           \E q \in {IF r.exc # "none" THEN r
                     ELSE Result(ElementBase_dtor(r.m, stack_x), "none", TRUE)} :
             LeaveCall(t, q, "push_back_move", <<n>>)

\* n.push_back(n[j]); and n.push_back(std::move(n[j])); (tests.cpp:157, 177, 1204)
PushBackSelf(t, n, j, by_move) ==
  /\ InF(t)
  /\ Alive(n)
  /\ j \in 0..(vec[n].size - 1)
  /\ Fits(n)
  /\ \E r \in {IF by_move
                 THEN Vector_push_back_move(reset_counters(Machine(t)), n, Slot(vec[n].data, j))
                 ELSE Vector_push_back(reset_counters(Machine(t)), n, Slot(vec[n].data, j))} :
       LeaveCall(t, r, "push_back_self", <<n, j, by_move>>)

\* { T x = v; n.insert(n.begin() + i, x); } and the same with std::move(x)
\* (tests.cpp:891-892, 1259, 1281-1282); the event keeps what insert returned.
Insert(t, n, i, by_move) ==
  /\ InF(t)
  /\ Alive(n)
  /\ i \in 0..vec[n].size
  /\ Fits(n)
  /\ \E dg \in {FaultInjectionDisable_ctor(reset_counters(Machine(t)))} :
       \E x \in {ElementBase_int(dg.m, stack_x, vec[n].size + 1)} :
         \E r \in {Vector_insert(FaultInjectionDisable_reset(x.m, dg.ret), n, i, stack_x, by_move)} :
           \E q \in {IF r.exc # "none" THEN r
                     ELSE Result(ElementBase_dtor(r.m, stack_x), "none", TRUE)} :
             LeaveCall(t, q, "insert", <<n, i, by_move, r.ret>>)

\* n.erase(n.begin() + f, n.begin() + l); (tests.cpp:1002, 1093); the event keeps
\* what erase returned.
Erase(t, n, f, l) ==
  /\ InF(t)
  /\ Alive(n)
  /\ f <= l
  /\ l <= vec[n].size
  /\ \E r \in {Vector_erase(reset_counters(Machine(t)), n, f, l)} :
       LeaveCall(t, r, "erase", <<n, f, l, r.ret>>)

NextSeq ==
  \/ FaultyRun(MainThread, <<>>)
  \/ SetupBegin(MainThread)
  \/ SetupEnd(MainThread)
  \/ \E n \in Seqs : SeqCtor(MainThread, n)
  \/ \E n \in Seqs : PushBack(MainThread, n)
  \/ \E n \in Seqs : PushBackMove(MainThread, n)
  \/ \E n \in Seqs, j \in 0..(MaxCap - 1), by_move \in BOOLEAN : PushBackSelf(MainThread, n, j, by_move)
  \/ \E n \in Seqs, i \in 0..MaxCap, by_move \in BOOLEAN : Insert(MainThread, n, i, by_move)
  \/ \E n \in Seqs, k \in 0..MaxCap : Reserve(MainThread, n, k)
  \/ \E n \in Seqs, f, l \in 0..MaxCap : Erase(MainThread, n, f, l)
  \/ Unwind(MainThread)
  \/ Handler(MainThread)
  \/ Return(MainThread)

SpecSeq == Init /\ [][NextSeq]_vars

\* ------------------------------------------------- the order of destruction
\* The operation of the test of the destruction order (tests.cpp:878-884), here under
\* faulty_run: a Vector<OrderedElement> o receives values, each the temporary
\* OrderedElement(v) of the call, is given room, cleared, and destroyed when f is
\* left, by its end or by a failed allocation.
OrderedCtor(t) ==
  /\ ~Alive("o")
  /\ DefaultCtor(t, "o")

\* o.push_back(v); the temporary is destroyed at the end of the expression, also
\* when the call throws.
OrderedPushBack(t, v) ==
  /\ InF(t)
  /\ Alive("o")
  /\ Fits("o")
  /\ \E r \in {OrderedVector_push_back(OrderedElement_ctor(Machine(t), stack_x, v), "o", stack_x)} :
       LeaveCall(t, Result(OrderedElement_dtor(r.m, stack_x), r.exc, r.ret), "ordered_push_back", <<v>>)

\* o.reserve(k);
OrderedReserve(t, k) ==
  /\ InF(t)
  /\ Alive("o")
  /\ \E r \in {OrderedVector_reserve(Machine(t), "o", k)} :
       LeaveCall(t, r, "ordered_reserve", <<k>>)

\* o.clear(); the event keeps the values that were to be destroyed.
OrderedClear(t) ==
  /\ InF(t)
  /\ Alive("o")
  /\ \E r \in {OrderedVector_clear(Machine(t), "o")} :
       LeaveCall(t, r, "ordered_clear", <<mem.insertion_order>>)

NextOrder ==
  \/ FaultyRun(MainThread, <<>>)
  \/ SetupBegin(MainThread)
  \/ SetupEnd(MainThread)
  \/ OrderedCtor(MainThread)
  \/ \E v \in Values : OrderedPushBack(MainThread, v)
  \/ \E k \in 0..MaxCap : OrderedReserve(MainThread, k)
  \/ OrderedClear(MainThread)
  \/ Unwind(MainThread)
  \/ Handler(MainThread)
  \/ Return(MainThread)

SpecOrder == Init /\ [][NextOrder]_vars

\* ===================================================================== claims
\* The steps of f whose check consults the scheduler (those outside a marker), and
\* whether f lets every fault escape.
NumPoints(p) == Cardinality({i \in 1..Len(p) : p[i] = "point"})

Escaping(p) == \A i \in 1..Len(p) : p[i] # "catch_point"

\* C1: for an operation that makes k fallibility checks and lets every injected fault
\* escape, faulty_run runs the operation exactly k+1 times: pass i <= k injects exactly
\* one fault, at the i-th check of the pass (and is left there), pass k+1 injects none,
\* and faulty_run returns after pass k+1 and after no other.
C1_ExhaustivePasses ==
  \A t \in Threads :
    (Escaping(prog[t]) /\ fi[t].pass > 0) =>
      /\ fi[t].abort = ""
      /\ fi[t].pass <= NumPoints(prog[t]) + 1
      /\ pc[t] = "f" => fi[t].faults = {} /\ fi[t].calls < fi[t].pass
      /\ pc[t] = "catch" => fi[t].faults = {fi[t].pass} /\ fi[t].calls = fi[t].pass
      /\ pc[t] = "catch" => fi[t].pass <= NumPoints(prog[t])
      /\ pc[t] = "idle" => fi[t].pass = NumPoints(prog[t]) + 1

\* A run over three escaping checks has returned, after its fourth pass.
C1_Witness ==
  /\ pc[MainThread] = "idle"
  /\ Escaping(prog[MainThread])
  /\ NumPoints(prog[MainThread]) = 3
  /\ fi[MainThread].pass = 4
  /\ ev.op = "return"

\* ------------------------------------------------------- the container's claims
\* The values of the elements of a container v in the memory mm, front to back.
Contents(v, mm) == [i \in 1..v.size |-> mm.data[Slot(v.data, i - 1)]]

\* Container n is after the step what it was before it: the same buffer, size and
\* capacity, and the same elements, all alive.
Same(n) ==
  /\ vec'[n] = vec[n]
  /\ Contents(vec'[n], mem') = Contents(vec[n], mem)
  /\ \A i \in 1..vec[n].size : Slot(vec[n].data, i - 1) \in mem'.instances

Threw(op) == ev'.op = op /\ ev'.exc # "none"

NoBlocks == \A b \in BufIds : heap[b] = 0

\* The next enabled check of thread t, if one is made, fails.
NextCheckFails(t) ==
  /\ fi[t].context
  /\ ~fi[t].disabled
  /\ \/ fi[t].ctx.error_index = Len(fi[t].ctx.skip_ranges)
     \/ /\ fi[t].ctx.error_index < Len(fi[t].ctx.skip_ranges)
        /\ fi[t].ctx.skip_index = fi[t].ctx.skip_ranges[fi[t].ctx.error_index + 1]

\* C2: when push_back(const T&) throws, at the allocation of the new buffer or at the
\* copy of any element, the container has the size, capacity, data() and element
\* values it had before the call, the pushed argument x is alive with its value, and
\* no other object or block was left behind; with and without a reallocation.
C2_PushBackStrong ==
  [][Threw("push_back") =>
       /\ Same(ev'.arg[1])
       /\ stack_x \in mem'.instances
       /\ mem'.data[stack_x] = vec[ev'.arg[1]].size + 1
       /\ mem'.instances = mem.instances \cup {stack_x}
       /\ heap' = heap]_vars

\* A push_back into a full container of one element failed at its second check: the
\* copy of the element into the new buffer.
C2_Witness ==
  /\ ev.op = "push_back"
  /\ ev.exc = "InjectedFault"
  /\ pc[ev.t] = "unwinding"
  /\ fi[ev.t].faults = {2}
  /\ vec[ev.arg[1]].size = 1
  /\ vec[ev.arg[1]].capacity = 1
  /\ mem.data[stack_x] = 2

\* C3: once the containers and the element of the operation are destroyed, after a
\* pass that failed at any failure point of any call or after one that returned, the
\* live instances are those captured before the operation (none), no object was
\* destroyed twice or built over a live one, and every block is back.
C3_NoLeakNoDoubleDestroy ==
  /\ mem.failed = ""
  /\ \A t \in Threads : pc[t] = "abort" => fi[t].abort # "exception in a noexcept function"
  /\ (\A t \in Threads : pc[t] \in {"idle", "catch"}) => (mem.instances = {} /\ NoBlocks)

\* A pass that failed at its third check, after two steps of building a new buffer, has
\* been unwound: nothing is alive.
C3_Witness ==
  /\ ev.op = "unwind"
  /\ pc[ev.t] = "catch"
  /\ fi[ev.t].faults = {3}
  /\ mem.instances = {}
  /\ NoBlocks

InExtent(t) == \E i \in 1..Len(markers[t]) : markers[t][i].extent

InNestedExtent(t) ==
  \E i \in 1..Len(markers[t]) : markers[t][i].extent /\ ~markers[t][i].crossed

NeverFailing == {"Vector", "move_ctor", "move_assign", "pop_back", "clear", "swap"}

\* C4: default construction, move construction, move assignment between two
\* containers, pop_back, clear and swap let no exception escape, in every pass and
\* whatever the scheduler would answer to a check: the call returns and f goes on.
C4_NeverFailing ==
  [][(ev'.op \in NeverFailing /\ (ev'.op = "move_assign" => ev'.arg[1] # ev'.arg[2])) =>
       /\ ev'.exc = "none"
       /\ fi'[ev'.t].abort = ""
       /\ pc'[ev'.t] = "f"]_vars

\* clear() returned on a container that held two elements while the scheduler, enabled, was to
\* fail the next check.
C4_Witness ==
  /\ ev.op = "clear"
  /\ ev.exc = "none"
  /\ NextCheckFails(ev.t)
  /\ ev.arg[2] = 2
  /\ vec[ev.arg[1]].size = 0
  /\ mem.instances = {}
  /\ ~InExtent(ev.t)

EmptyStorage(v) == v.size = 0 /\ v.capacity = 0 /\ v.data = nullptr

WellFormed(v) ==
  /\ 0 <= v.size
  /\ v.size <= v.capacity
  /\ v.data = nullptr <=> v.capacity = 0

\* C5: after every call, returned or thrown, every container has 0 <= size <=
\* capacity and data() = nullptr exactly when capacity = 0; a default-constructed
\* container, a copy of a container without elements, reserve(0) on a container
\* without buffer and shrink_to_fit on a container without elements leave size 0,
\* capacity 0 and data() = nullptr.
C5_SizeCapacityData ==
  [][/\ \A n \in Names : WellFormed(vec'[n])
     /\ (ev'.op = "Vector" /\ ev'.exc = "none") => EmptyStorage(vec'[ev'.arg[1]])
     /\ (ev'.op = "copy_ctor" /\ ev'.exc = "none" /\ vec[ev'.arg[2]].size = 0) =>
          EmptyStorage(vec'[ev'.arg[1]])
     /\ (ev'.op = "reserve" /\ ev'.arg[2] = 0 /\ EmptyStorage(vec[ev'.arg[1]])) =>
          (ev'.exc = "none" /\ EmptyStorage(vec'[ev'.arg[1]]))
     /\ (ev'.op = "shrink_to_fit" /\ vec[ev'.arg[1]].size = 0) =>
          (ev'.exc = "none" /\ EmptyStorage(vec'[ev'.arg[1]]))]_vars

\* shrink_to_fit on a container that held a buffer and no element returned while the
\* scheduler was to fail the next check: the container owns no buffer.
C5_Witness ==
  /\ ev.op = "shrink_to_fit"
  /\ ev.exc = "none"
  /\ NextCheckFails(ev.t)
  /\ EmptyStorage(vec[ev.arg[1]])
  /\ vec[ev.arg[1]].alive
  /\ fi[ev.t].nested = 0
  /\ \E n \in Names : vec[n].size = 2

\* C6: when the copy constructor or the copy assignment from other throws, at the
\* allocation or at the copy of any element, other and the target are what they were
\* (a target under construction does not exist), the elements already copied are
\* destroyed and the new buffer is released.
C6_CopyStrong ==
  [][(Threw("copy_ctor") \/ Threw("copy_assign")) =>
       /\ Same(ev'.arg[1])
       /\ Same(ev'.arg[2])
       /\ mem'.instances = mem.instances
       /\ heap' = heap]_vars

\* A copy assignment to a container that holds an element, from one of two elements,
\* failed at its third check, the copy of the second element.
C6_Witness ==
  /\ ev.op = "copy_assign"
  /\ ev.exc = "InjectedFault"
  /\ pc[ev.t] = "unwinding"
  /\ fi[ev.t].faults = {3}
  /\ vec[ev.arg[1]].size = 1
  /\ vec[ev.arg[2]].size = 2

\* C7: when reserve(n) with n > capacity or shrink_to_fit() with capacity > size
\* throws, at the allocation of the new buffer or at the transfer of any element, the
\* container keeps its buffer, size, capacity and element values.
C7_ReserveShrinkStrong ==
  [][(Threw("reserve") \/ Threw("shrink_to_fit")) =>
       /\ Same(ev'.arg[1])
       /\ ev'.op = "reserve" => ev'.arg[2] > vec[ev'.arg[1]].capacity
       /\ ev'.op = "shrink_to_fit" => vec[ev'.arg[1]].capacity > vec[ev'.arg[1]].size]_vars

\* shrink_to_fit on a container of one element in two slots failed at the copy of the
\* element into the smaller buffer.
C7_Witness ==
  /\ ev.op = "shrink_to_fit"
  /\ ev.exc = "InjectedFault"
  /\ pc[ev.t] = "unwinding"
  /\ fi[ev.t].faults = {2}
  /\ vec[ev.arg[1]].size = 1
  /\ vec[ev.arg[1]].capacity = 2
  /\ mem.data[Slot(vec[ev.arg[1]].data, 0)] = 1

\* The checks a step can make on its own account.
CheckOps == {"check", "new"}

SchedulerState(f) == <<f.context, f.ctx, f.disabled>>

\* The last step of thread t was a check that answered "fail".
Failed(t) ==
  /\ fi'[t].calls = fi[t].calls + 1
  /\ fi[t].calls + 1 \in fi'[t].faults

\* C8 as stated: while any marker is inside its extent (built, not yet reset or
\* destroyed), every fallibility check of the thread answers "do not fail" and leaves
\* the scheduler state as it was, whatever markers are reset meanwhile.
C8_AsStated ==
  [][\A t \in Threads :
       (ev'.t = t /\ ev'.op \in CheckOps /\ InExtent(t)) =>
         /\ ~Failed(t)
         /\ ev'.exc \in {"none"}
         /\ SchedulerState(fi'[t]) = SchedulerState(fi[t])
         /\ fi'[t].calls = fi[t].calls]_vars

\* C8, amended: the same, for a marker inside whose extent no marker built before it
\* has been reset: markers built, reset and destroyed inside the extent do not end it.
C8_NestedExtent ==
  [][\A t \in Threads :
       (ev'.t = t /\ ev'.op \in CheckOps /\ InNestedExtent(t)) =>
         /\ ~Failed(t)
         /\ ev'.exc \in {"none"}
         /\ SchedulerState(fi'[t]) = SchedulerState(fi[t])
         /\ fi'[t].calls = fi[t].calls]_vars

\* Inside a faulty_run whose scheduler would fail the next check, a check was made
\* within the extent of a marker that holds a second, already destroyed or reset one.
C8_Witness ==
  /\ ev.op \in CheckOps
  /\ pc[ev.t] = "f"
  /\ InNestedExtent(ev.t)
  /\ fi[ev.t].ctx.error_index = Len(fi[ev.t].ctx.skip_ranges)
  /\ fi[ev.t].checks = 1
  /\ \E i \in 1..Len(markers[ev.t]) : ~markers[ev.t][i].extent

\* C9: leaving a marker, by reset() or by its destructor, sets the thread's disabled
\* flag to the value the flag had when the marker was built (so a marker built while
\* injection was disabled leaves it disabled), and when the last marker of a thread
\* is gone the flag is what it was before the first, enabled.
C9_RestoresEntryFlag ==
  /\ ev.op \in {"reset", "dtor"} => fi[ev.t].disabled = ev.arg
  /\ \A t \in Threads : (markers[t] = <<>> /\ pc[t] # "abort") => ~fi[t].disabled

\* A marker built inside a disabled region was destroyed and injection is still
\* disabled, the outer marker being alive.
C9_Witness ==
  /\ ev.op = "dtor"
  /\ ev.arg = TRUE
  /\ fi[ev.t].disabled
  /\ Len(markers[ev.t]) = 1

\* C10: a call of operator new, in each form, makes exactly one fallibility check; if
\* the check answers "fail" the call throws bad_alloc and no block is handed out;
\* if it returns, exactly one block is. A call of operator delete, in each form,
\* makes no check, throws nothing, leaves the scheduler state as it was and gives
\* back a block.
C10_AllocationHook ==
  [][\A t \in Threads :
       /\ (ev'.t = t /\ ev'.op = "new") =>
            /\ ev'.arg \in NewForms
            /\ fi'[t].checks = 1
            /\ Failed(t) => ev'.exc = "bad_alloc" /\ heap' = heap
            /\ ev'.exc = "none" =>
                 \E b \in BufIds : heap[b] = 0 /\ heap' = [heap EXCEPT ![b] = 1]
            /\ ev'.exc # "none" => heap' = heap
       /\ (ev'.t = t /\ ev'.op = "delete") =>
            /\ ev'.arg \in DeleteForms
            /\ fi'[t].checks = 0
            /\ fi'[t].nested = 0
            /\ ev'.exc = "none"
            /\ SchedulerState(fi'[t]) = SchedulerState(fi[t])
            /\ fi'[t].calls = fi[t].calls
            /\ \E b \in BufIds : heap[b] # 0 /\ heap' = [heap EXCEPT ![b] = 0]]_vars

\* An allocation was failed by the scheduler: bad_alloc is on its way to the handler
\* and the heap holds nothing.
C10_Witness ==
  /\ ev.op = "new"
  /\ ev.exc = "bad_alloc"
  /\ pc[ev.t] = "catch"
  /\ fi[ev.t].faults # {}
  /\ \A b \in BufIds : heap[b] = 0

\* C11: under any interleaving of the threads, a step of one thread (a check, a marker,
\* the start, the handler or the end of an exhaustive run) leaves the scheduler state,
\* the markers and the position of every other thread as they were; the answer of a
\* check is the one the thread's own state gives; and a check on a thread without an
\* active run never fails and changes nothing.
C11_PerThread ==
  [][\A t \in Threads :
       /\ ev'.t # t => (fi'[t] = fi[t] /\ markers'[t] = markers[t] /\ pc'[t] = pc[t])
       /\ (ev'.t = t /\ ev'.op = "check") =>
            /\ Failed(t) <=> NextCheckFails(t)
            /\ ev'.exc # "none" <=> NextCheckFails(t)
            /\ ~fi[t].context =>
                 (ev'.exc = "none" /\ SchedulerState(fi'[t]) = SchedulerState(fi[t]))]_vars

\* Two threads are inside exhaustive runs of their own: the second has just been failed
\* at its check, in its first pass, while the first, in its second pass, has passed
\* its check and holds a marker.
C11_Witness ==
  /\ ev.op = "check"
  /\ ev.exc = "InjectedFault"
  /\ \E t \in Threads :
       /\ t # ev.t
       /\ pc[t] = "f"
       /\ fi[t].pass = 2
       /\ fi[t].calls = 1
       /\ fi[t].disabled
       /\ fi[ev.t].pass = 1
       /\ pc[ev.t] = "catch"

\* C12 as stated: while a FaultInjectionMoveThrowDisable is alive, no move
\* construction and no move assignment of an element injects a fault, and the
\* allocations and the element copies made meanwhile are checks that fail when the
\* scheduler has chosen them.
C12_AsStated ==
  [][\A t \in Threads :
       (ev'.t = t /\ fi[t].mdg # <<>>) =>
         /\ ev'.op \in {"element_move", "element_move_assign"} =>
              (~Failed(t) /\ ev'.exc = "none")
         /\ (ev'.op \in {"element_copy", "new"} /\ NextCheckFails(t)) =>
              (Failed(t) /\ ev'.exc # "none")]_vars

\* C13: a move construction, and a move assignment between two distinct containers,
\* returns with the destination holding the buffer, size, capacity and sequence the
\* source had and the source left without buffer, size 0 and capacity 0; no element is
\* copied, and the elements the destination held before are destroyed.
C13_MoveTransfers ==
  [][(ev'.op \in {"move_ctor", "move_assign"} /\ ev'.arg[1] # ev'.arg[2]) =>
       /\ ev'.exc = "none"
       /\ vec'[ev'.arg[1]] = vec[ev'.arg[2]]
       /\ Contents(vec'[ev'.arg[1]], mem') = Contents(vec[ev'.arg[2]], mem)
       /\ vec'[ev'.arg[2]].alive
       /\ EmptyStorage(vec'[ev'.arg[2]])
       /\ mem'.copy_counter = 0
       /\ mem'.instances = mem.instances \ { Slot(vec[ev'.arg[1]].data, i - 1)
                                              : i \in 1..vec[ev'.arg[1]].size }
       /\ (vec[ev'.arg[1]].data # nullptr) => heap'[vec[ev'.arg[1]].data] = 0]_vars

\* A container of one element received by move assignment the buffer of a container
\* of two; its own element is gone.
C13_Witness ==
  /\ ev.op = "move_assign"
  /\ ev.arg[1] # ev.arg[2]
  /\ ev.arg[3] = 1
  /\ vec[ev.arg[1]].size = 2
  /\ Cardinality(mem.instances) = 2
  /\ EmptyStorage(vec[ev.arg[2]])

\* C14: a = a and a = std::move(a) return and change nothing: the container keeps its
\* buffer, size, capacity and element values (it is not emptied), no element is copied
\* or moved, and no object or block appears or disappears.
C14_SelfAssignment ==
  [][(ev'.op \in {"copy_assign", "move_assign"} /\ ev'.arg[1] = ev'.arg[2]) =>
       /\ ev'.exc = "none"
       /\ Same(ev'.arg[1])
       /\ mem'.copy_counter = 0
       /\ mem'.move_counter = 0
       /\ mem'.instances = mem.instances
       /\ mem'.data = mem.data
       /\ heap' = heap
       /\ vec' = vec]_vars

\* A container of two elements was move-assigned to itself, after calls that copied
\* elements, while the scheduler was to fail the next check.
C14_Witness ==
  /\ ev.op = "move_assign"
  /\ ev.arg[1] = ev.arg[2]
  /\ ev.exc = "none"
  /\ vec[ev.arg[1]].size = 2
  /\ Contents(vec[ev.arg[1]], mem) = <<1, 2>>
  /\ NextCheckFails(ev.t)

\* Every element of container v is a registered object.
AllAlive(v, mm) == \A i \in 1..v.size : Slot(v.data, i - 1) \in mm.instances

\* C15: after reserve(k) returned, the size and the sequence of elements are what they
\* were; when k exceeds the old capacity the capacity is exactly k and the elements
\* are in a new buffer of k slots, otherwise capacity and buffer are the old ones and
\* nothing was copied or allocated.
C15_Reserve ==
  [][(ev'.op = "reserve" /\ ev'.exc = "none") =>
       /\ vec'[ev'.arg[1]].size = vec[ev'.arg[1]].size
       /\ Contents(vec'[ev'.arg[1]], mem') = Contents(vec[ev'.arg[1]], mem)
       /\ AllAlive(vec'[ev'.arg[1]], mem')
       /\ ev'.arg[2] > vec[ev'.arg[1]].capacity =>
            /\ vec'[ev'.arg[1]].capacity = ev'.arg[2]
            /\ vec'[ev'.arg[1]].data # vec[ev'.arg[1]].data
            /\ vec'[ev'.arg[1]].data # nullptr
            /\ heap'[vec'[ev'.arg[1]].data] = ev'.arg[2]
       /\ ev'.arg[2] <= vec[ev'.arg[1]].capacity =>
            /\ vec' = vec
            /\ mem'.instances = mem.instances
            /\ heap' = heap
            /\ mem'.copy_counter = 0
            /\ mem'.move_counter = 0]_vars

\* reserve(2) on a container of one element in one slot returned: the element was
\* copied to a buffer of two slots.
C15_Witness ==
  /\ ev.op = "reserve"
  /\ ev.exc = "none"
  /\ ev.arg[2] = 2
  /\ vec[ev.arg[1]].size = 1
  /\ vec[ev.arg[1]].capacity = 2
  /\ mem.copy_counter = 1
  /\ Contents(vec[ev.arg[1]], mem) = <<1>>

\* C16: after shrink_to_fit() returned, capacity = size and the sequence of elements
\* is what it was; when capacity equalled size before, capacity and buffer are the
\* old ones and nothing was copied or allocated; a container without buffer still has
\* data() = nullptr and capacity 0.
C16_ShrinkToFit ==
  [][(ev'.op = "shrink_to_fit" /\ ev'.exc = "none") =>
       /\ vec'[ev'.arg[1]].capacity = vec'[ev'.arg[1]].size
       /\ vec'[ev'.arg[1]].size = vec[ev'.arg[1]].size
       /\ Contents(vec'[ev'.arg[1]], mem') = Contents(vec[ev'.arg[1]], mem)
       /\ AllAlive(vec'[ev'.arg[1]], mem')
       /\ WellFormed(vec'[ev'.arg[1]])
       /\ vec[ev'.arg[1]].capacity = vec[ev'.arg[1]].size =>
            /\ vec' = vec
            /\ mem'.instances = mem.instances
            /\ heap' = heap
            /\ mem'.copy_counter = 0
            /\ mem'.move_counter = 0
       /\ vec[ev'.arg[1]].data = nullptr => EmptyStorage(vec'[ev'.arg[1]])]_vars

\* shrink_to_fit() on a container of one element in two slots returned: the element
\* is in a buffer of one slot.
C16_Witness ==
  /\ ev.op = "shrink_to_fit"
  /\ ev.exc = "none"
  /\ vec[ev.arg[1]].size = 1
  /\ vec[ev.arg[1]].capacity = 1
  /\ mem.copy_counter = 1
  /\ heap[vec[ev.arg[1]].data] = 1
  /\ Contents(vec[ev.arg[1]], mem) = <<1>>

\* The value of element i (from 0) of container v.
At(v, mm, i) == mm.data[Slot(v.data, i)]

\* C17: a.push_back(a[j]) and a.push_back(std::move(a[j])) that return, with or
\* without a reallocation, leave a one element longer, its last element equal to
\* the value a[j] had, every other element but a[j] with its value; a[j] keeps its
\* value under the lvalue overload and holds the moved-from value under the rvalue
\* overload.
C17_PushBackFromSelf ==
  [][(ev'.op = "push_back_self" /\ ev'.exc = "none") =>
       /\ vec'[ev'.arg[1]].size = vec[ev'.arg[1]].size + 1
       /\ AllAlive(vec'[ev'.arg[1]], mem')
       /\ At(vec'[ev'.arg[1]], mem', vec[ev'.arg[1]].size) = At(vec[ev'.arg[1]], mem, ev'.arg[2])
       /\ \A i \in 0..(vec[ev'.arg[1]].size - 1) :
            At(vec'[ev'.arg[1]], mem', i) =
              IF i = ev'.arg[2] /\ ev'.arg[3] THEN moved_from ELSE At(vec[ev'.arg[1]], mem, i)]_vars

\* a.push_back(std::move(a[0])) returned on a full Vector<Element> of one element:
\* the element was copied to the new buffer after the value had been moved out of it.
C17_Witness ==
  /\ ev.op = "push_back_self"
  /\ ev.exc = "none"
  /\ ev.arg = <<"a", 0, TRUE>>
  /\ Contents(vec["a"], mem) = <<moved_from, 1>>
  /\ vec["a"].capacity = 2
  /\ mem.copy_counter = 1
  /\ mem.move_counter = 1

\* The call that just returned gave container n another buffer.
Reallocated(n) == ev'.exc = "none" /\ vec'[n].data # vec[n].data

\* C18: a call that reallocates a container of N elements transfers them by copy
\* when the move of the element type may throw and by move when it cannot: on a
\* Vector<Element>, push_back(const T&) makes exactly N + 1 copies and reserve
\* exactly N, and neither moves an element; on a Vector<ElementWithNonThrowingMove>,
\* push_back(T&&) and reserve make no copy, move each of the N elements, and make at
\* most one move per element held afterwards.
C18_TransferByTrait ==
  [][(ev'.op \in {"push_back", "push_back_move", "reserve"} /\ Reallocated(ev'.arg[1])) =>
       /\ (~NothrowMove(ev'.arg[1]) /\ ev'.op = "push_back") =>
            /\ mem'.copy_counter = vec[ev'.arg[1]].size + 1
            /\ mem'.move_counter = 0
       /\ (~NothrowMove(ev'.arg[1]) /\ ev'.op = "reserve") =>
            /\ mem'.copy_counter = vec[ev'.arg[1]].size
            /\ mem'.move_counter = 0
       /\ (NothrowMove(ev'.arg[1]) /\ ev'.op \in {"push_back_move", "reserve"}) =>
            /\ mem'.copy_counter = 0
            /\ mem'.move_counter >= vec[ev'.arg[1]].size
            /\ mem'.move_counter <= vec'[ev'.arg[1]].size]_vars

\* push_back(std::move(x)) returned on a full Vector<ElementWithNonThrowingMove> of
\* one element: two moves, no copy.
C18_Witness ==
  /\ ev.op = "push_back_move"
  /\ ev.exc = "none"
  /\ ev.arg[1] = "c"
  /\ vec["c"].size = 2
  /\ vec["c"].capacity = 2
  /\ mem.move_counter = 2
  /\ mem.copy_counter = 0
  /\ Contents(vec["c"], mem) = <<1, 2>>

\* C19: insert(pos, value) that returns, pos at index i of a container of N
\* elements, 0 <= i <= N, leaves the N + 1 elements old[0..i), value, old[i..N) and
\* returns the address of element i in the buffer the container has now; both
\* overloads, both element types. (So v1, ..., vn inserted in turn at index 0 of an
\* empty container give vn, ..., v1.) value is what x held: N + 1.
C19_Insert ==
  [][(ev'.op = "insert" /\ ev'.exc = "none") =>
       /\ ev'.arg[2] \in 0..vec[ev'.arg[1]].size
       /\ vec'[ev'.arg[1]].size = vec[ev'.arg[1]].size + 1
       /\ AllAlive(vec'[ev'.arg[1]], mem')
       /\ WellFormed(vec'[ev'.arg[1]])
       /\ \A k \in 0..vec[ev'.arg[1]].size :
            At(vec'[ev'.arg[1]], mem', k) =
              IF k < ev'.arg[2] THEN At(vec[ev'.arg[1]], mem, k)
              ELSE IF k = ev'.arg[2] THEN vec[ev'.arg[1]].size + 1
              ELSE At(vec[ev'.arg[1]], mem, k - 1)
       /\ ev'.arg[4] = Slot(vec'[ev'.arg[1]].data, ev'.arg[2])]_vars

\* The second of two insertions at index 0 returned: the sequence is the reverse of
\* the order of insertion.
C19_Witness ==
  /\ ev.op = "insert"
  /\ ev.exc = "none"
  /\ ev.arg[2] = 0
  /\ Contents(vec[ev.arg[1]], mem) = <<2, 1>>
  /\ ev.arg[4] = Slot(vec[ev.arg[1]].data, 0)

Slots(v, lo, hi) == { Slot(v.data, k) : k \in lo..hi }

\* C22: pop_back destroys the last element and no other object and takes one off the
\* size; clear destroys every element of the container and no other object and
\* leaves size 0; both return, both leave capacity and data() as they were, and the
\* elements pop_back leaves keep their values.
C22_PopBackClear ==
  [][(ev'.op \in {"pop_back", "clear"}) =>
       /\ ev'.exc = "none"
       /\ vec'[ev'.arg[1]].capacity = vec[ev'.arg[1]].capacity
       /\ vec'[ev'.arg[1]].data = vec[ev'.arg[1]].data
       /\ heap' = heap
       /\ mem'.failed = ""
       /\ \A o \in Containers : o # ev'.arg[1] => vec'[o] = vec[o]
       /\ ev'.op = "pop_back" =>
            /\ vec'[ev'.arg[1]].size = vec[ev'.arg[1]].size - 1
            /\ mem'.instances = mem.instances \ {Slot(vec[ev'.arg[1]].data, vec[ev'.arg[1]].size - 1)}
            /\ Slot(vec[ev'.arg[1]].data, vec[ev'.arg[1]].size - 1) \in mem.instances
       /\ ev'.op = "clear" =>
            /\ vec'[ev'.arg[1]].size = 0
            /\ mem'.instances = mem.instances \ Slots(vec[ev'.arg[1]], 0, vec[ev'.arg[1]].size - 1)
       /\ \A p \in mem'.instances : mem'.data[p] = mem.data[p]]_vars

\* pop_back returned on a container of two elements while the other container held
\* one: the first element and the other container's are the objects left.
C22_Witness ==
  /\ ev.op = "pop_back"
  /\ ev.arg[2] = 2
  /\ vec[ev.arg[1]].size = 1
  /\ vec[ev.arg[1]].capacity = 2
  /\ Contents(vec[ev.arg[1]], mem) = <<1>>
  /\ Cardinality(mem.instances) = 2

\* C23: the elements a clear or the destructor of the container destroys go from
\* the highest index down to the lowest: no destructor of an OrderedElement ever finds
\* another value than its own at the back of insertion_order, and once clear has
\* returned, or f was left and the container destroyed, every value inserted has
\* been taken off it; also when the elements were copied into larger buffers between.
C23_DestroyOrder ==
  /\ mem.failed = ""
  /\ ev.op \in {"ordered_clear", "unwind", "return"} => mem.insertion_order = <<>>
  /\ Len(mem.insertion_order) = vec["o"].size
  /\ \A i \in 1..vec["o"].size : mem.insertion_order[i] = At(vec["o"], mem, i - 1)

\* clear() returned on the elements 1, 2, pushed in this order with a reallocation
\* between: 2 was destroyed before 1.
C23_Witness ==
  /\ ev.op = "ordered_clear"
  /\ ev.arg = << <<1, 2>> >>
  /\ vec["o"].capacity = 2
  /\ vec["o"].size = 0
  /\ mem.insertion_order = <<>>
  /\ heap[vec["o"].data] = 2

\* The coarse state of a container: "none" before its construction and after its
\* destruction, "empty" without buffer, "allocated" with one.
StateOf(v) == IF ~v.alive THEN "none" ELSE IF v.data = nullptr THEN "empty" ELSE "allocated"

\* The calls that give their container room.
GrowOps == {"reserve", "push_back", "push_back_move", "push_back_self", "insert"}

\* Container n is constructed or destroyed by the step, as the language has it.
Lifetime(n) ==
  \/ /\ StateOf(vec'[n]) = "none"
     /\ ev'.op \in {"unwind", "return"}
  \/ /\ StateOf(vec[n]) = "none"
     /\ ev'.exc = "none"
     /\ ev'.op \in {"Vector", "copy_ctor", "move_ctor"}
     /\ ev'.arg[1] = n
     /\ ev'.op = "Vector" => StateOf(vec'[n]) = "empty"
     /\ ev'.op = "copy_ctor" => (StateOf(vec'[n]) = "allocated" <=> vec[ev'.arg[2]].size > 0)
     /\ ev'.op = "move_ctor" => StateOf(vec'[n]) = StateOf(vec[ev'.arg[2]])

\* Container n is the one moved from by the step.
MovedFrom(n) ==
  /\ ev'.op \in {"move_ctor", "move_assign"}
  /\ ev'.arg[2] = n
  /\ ev'.arg[1] # n

\* shrink_to_fit() on container n, which holds no element: the explicit release.
Released(n) ==
  /\ ev'.op = "shrink_to_fit"
  /\ ev'.arg[1] = n
  /\ vec[n].size = 0

\* Container n, empty, is given room by the step, or the copy of a container that is
\* not empty.
Filled(n) ==
  /\ StateOf(vec[n]) = "empty"
  /\ StateOf(vec'[n]) = "allocated"
  /\ ev'.exc = "none"
  /\ ev'.arg[1] = n
  /\ \/ ev'.op \in GrowOps
     \/ ev'.op = "copy_assign" /\ vec[ev'.arg[2]].size > 0

\* Container n, allocated, is left without buffer by the step that moves from it or
\* releases it.
Emptied(n) ==
  /\ StateOf(vec[n]) = "allocated"
  /\ StateOf(vec'[n]) = "empty"
  /\ ev'.exc = "none"
  /\ MovedFrom(n) \/ Released(n)

\* Container n takes over the state of the other container of a move assignment or
\* a swap, or of the container without elements it is copy-assigned from.
TakenOver(n) ==
  /\ StateOf(vec[n]) \in {"empty", "allocated"}
  /\ StateOf(vec'[n]) \in {"empty", "allocated"}
  /\ ev'.exc = "none"
  /\ \/ /\ ev'.op = "move_assign"
        /\ ev'.arg[1] = n
        /\ StateOf(vec'[n]) = StateOf(vec[ev'.arg[2]])
     \/ /\ ev'.op = "swap"
        /\ \/ ev'.arg[1] = n /\ StateOf(vec'[n]) = StateOf(vec[ev'.arg[2]])
           \/ ev'.arg[2] = n /\ StateOf(vec'[n]) = StateOf(vec[ev'.arg[1]])
     \/ /\ ev'.op = "copy_assign"
        /\ ev'.arg[1] = n
        /\ vec[ev'.arg[2]].size = 0
        /\ StateOf(vec'[n]) = "empty"

\* C24 as stated: a container goes from empty to allocated only by a successful
\* reserve, push_back, insert or copy of a container that is not empty, from
\* allocated to empty only by being moved from or released, and leaves the allocated
\* state otherwise only by its destruction; no failed call changes the state.
C24_AsStated ==
  [][\A n \in Containers :
       \/ StateOf(vec'[n]) = StateOf(vec[n])
       \/ Lifetime(n)
       \/ Filled(n)
       \/ Emptied(n)]_vars

\* C24, amended: besides, a container takes over the state of the other container
\* of a successful move assignment or swap (an empty one becomes allocated with the
\* buffer of an allocated one, an allocated one empty), and an allocated container
\* becomes empty when it is copy-assigned from a container without elements.
C24_StateMachine ==
  [][\A n \in Containers :
       \/ StateOf(vec'[n]) = StateOf(vec[n])
       \/ Lifetime(n)
       \/ Filled(n)
       \/ Emptied(n)
       \/ TakenOver(n)]_vars

\* A swap of an allocated container of two elements with an empty one returned: the
\* first is empty now and the second allocated.
C24_Witness ==
  /\ ev.op = "swap"
  /\ ev.exc = "none"
  /\ StateOf(vec[ev.arg[1]]) = "empty"
  /\ StateOf(vec[ev.arg[2]]) = "allocated"
  /\ vec[ev.arg[2]].size = 2

\* ------------------------------------------------------- the scheduler's claims
\* The two assertions of should_inject_fault (fault-injection.cpp:136, 145), on the
\* scheduler state f of a thread.
IndexInRange(f) == f.ctx.error_index <= Len(f.ctx.skip_ranges)

SkipInRange(f) ==
  f.ctx.error_index < Len(f.ctx.skip_ranges) =>
    f.ctx.skip_index <= f.ctx.skip_ranges[f.ctx.error_index + 1]

AssertionsOfCheck ==
  {"assert error_index <= skip_ranges.size()", "assert skip_index <= skip_ranges[error_index]"}

\* C25: in every state of an active exhaustive run error_index <= length(skip_ranges),
\* and skip_index <= skip_ranges[error_index] whenever error_index <
\* length(skip_ranges); neither assertion of should_inject_fault ever fails.
C25_IndicesInRange ==
  \A t \in Threads :
    /\ fi[t].abort \notin AssertionsOfCheck
    /\ fi[t].context => IndexInRange(fi[t]) /\ SkipInRange(fi[t])

\* In a later pass a check has let the operation go on and the next one is to fail:
\* skip_index has reached skip_ranges[error_index], which is not 0.
C25_Witness ==
  /\ ev.op = "point"
  /\ pc[ev.t] = "f"
  /\ fi[ev.t].context
  /\ fi[ev.t].pass > 1
  /\ fi[ev.t].ctx.error_index < Len(fi[ev.t].ctx.skip_ranges)
  /\ fi[ev.t].ctx.skip_index = fi[ev.t].ctx.skip_ranges[fi[ev.t].ctx.error_index + 1]
  /\ fi[ev.t].ctx.skip_index > 0

\* The steps of the operation that call fault_injection_point().
PointOps == {"point", "catch_point", "quiet_point"}

\* The step is an enabled check of thread t: the scheduler is active and not disabled.
EnabledCheck(t) ==
  /\ ev'.t = t
  /\ ev'.op \in PointOps
  /\ fi'[t].calls = fi[t].calls + 1

\* The number of the last check of this pass that answered "fail", 0 if none did.
LastFault(f) == IF f.faults = {} THEN 0 ELSE CHOOSE k \in f.faults : \A j \in f.faults : j <= k

\* C26 as stated: at every enabled check the index error_index, which the check
\* compares with length(skip_ranges) and indexes skip_ranges with, is the number of
\* the calls of the check made before in this pass.
C26_AsStated ==
  [][\A t \in Threads :
       EnabledCheck(t) => fi[t].ctx.error_index = fi[t].calls]_vars

\* C26, amended: at every enabled check error_index is the number of the checks made
\* before in this pass that answered "fail", and skip_index the number of the enabled
\* checks made since the last of them (since the start of the pass if there is none).
C26_FailurePointIndex ==
  [][\A t \in Threads :
       EnabledCheck(t) =>
         /\ fi[t].ctx.error_index = Cardinality(fi[t].faults)
         /\ fi[t].ctx.skip_index = fi[t].calls - LastFault(fi[t])]_vars

\* Third pass over an operation whose first check is inside a try block: the first
\* check failed and was swallowed, the second and the third went through, so after
\* three calls the index is 1 and the count 2.
C26_Witness ==
  /\ ev.op = "point"
  /\ fi[ev.t].pass = 3
  /\ fi[ev.t].calls = 3
  /\ fi[ev.t].faults = {1}
  /\ fi[ev.t].ctx.error_index = 1
  /\ fi[ev.t].ctx.skip_index = 2

\* C27: an enabled check of an active scheduler, if error_index = length(skip_ranges),
\* appends the entry 0, sets fault_registered, advances error_index by one and fails;
\* otherwise, if skip_index = skip_ranges[error_index], it fails, advances error_index
\* by one, sets skip_index to 0 and sets fault_registered; otherwise it does not fail
\* and changes nothing but skip_index, which it increments by one.
C27_CheckBehaviour ==
  [][\A t \in Threads :
       EnabledCheck(t) =>
         IF fi[t].ctx.error_index = Len(fi[t].ctx.skip_ranges)
           THEN /\ Failed(t)
                /\ fi'[t].ctx.skip_ranges = Append(fi[t].ctx.skip_ranges, 0)
                /\ fi'[t].ctx.fault_registered
                /\ fi'[t].ctx.error_index = fi[t].ctx.error_index + 1
                /\ fi'[t].ctx.skip_index = fi[t].ctx.skip_index
         ELSE IF fi[t].ctx.skip_index = fi[t].ctx.skip_ranges[fi[t].ctx.error_index + 1]
           THEN /\ Failed(t)
                /\ fi'[t].ctx.error_index = fi[t].ctx.error_index + 1
                /\ fi'[t].ctx.skip_index = 0
                /\ fi'[t].ctx.fault_registered
                /\ fi'[t].ctx.skip_ranges = fi[t].ctx.skip_ranges
         ELSE /\ ~Failed(t)
              /\ ev'.exc = "none"
              /\ fi'[t].ctx = [fi[t].ctx EXCEPT !.skip_index = @ + 1]
              /\ fi'[t].disabled = fi[t].disabled]_vars

\* A check has failed at a recorded point after letting one check through: the
\* second check of the second pass, on its way to the handler.
C27_Witness ==
  /\ ev.op = "point"
  /\ ev.exc = "InjectedFault"
  /\ pc[ev.t] = "catch"
  /\ fi[ev.t].pass = 2
  /\ fi[ev.t].faults = {2}
  /\ fi[ev.t].ctx.skip_ranges = <<1>>
  /\ fi[ev.t].ctx.error_index = 1
  /\ fi[ev.t].ctx.skip_index = 0
  /\ fi[ev.t].ctx.fault_registered

\* C28: when a failure has escaped the operation with error_index = e, the handler
\* cuts skip_ranges to its first e entries, increments entry e-1, the last one left,
\* by one, leaves the entries before it as they were, sets error_index and skip_index
\* to 0, clears fault_registered, and the operation is run again.
C28_Handler ==
  [][\A t \in Threads :
       (ev'.t = t /\ ev'.op = "handler") =>
         /\ fi'[t].abort = ""
         /\ fi[t].ctx.error_index \in 1..Len(fi[t].ctx.skip_ranges)
         /\ fi'[t].ctx.skip_ranges =
              [i \in 1..fi[t].ctx.error_index |->
                 IF i = fi[t].ctx.error_index THEN fi[t].ctx.skip_ranges[i] + 1
                 ELSE fi[t].ctx.skip_ranges[i]]
         /\ fi'[t].ctx.error_index = 0
         /\ fi'[t].ctx.skip_index = 0
         /\ ~fi'[t].ctx.fault_registered
         /\ fi'[t].context
         /\ fi'[t].disabled = fi[t].disabled
         /\ fi'[t].pass = fi[t].pass + 1
         /\ fi'[t].calls = 0
         /\ pc'[t] = "f"
         /\ ip'[t] = 0]_vars

\* The handler has cut a skip_ranges of three entries down to two: the pass before
\* swallowed two faults and a third escaped, this pass swallowed one and let the
\* second escape.
C28_Witness ==
  /\ ev.op = "handler"
  /\ ev.arg = <<0, 0, 1>>
  /\ fi[ev.t].ctx.skip_ranges = <<0, 1>>
  /\ fi[ev.t].ctx.error_index = 0
  /\ pc[ev.t] = "f"

\* C29: a faulty_run over an operation of finitely many checks that lets every
\* injected fault escape returns in the end; it returns only at the end of a pass in
\* which no check failed; and a pass in which a check failed is followed by the
\* next pass.
C29_Terminates ==
  /\ \A t \in Threads : (pc[t] = "f" /\ Escaping(prog[t])) ~> (pc[t] = "idle")
  /\ [][\A t \in Threads :
          (ev'.t = t /\ ev'.op = "return" /\ pc'[t] = "idle") =>
            /\ pc[t] = "f"
            /\ ip[t] = Len(prog[t])
            /\ fi[t].faults = {}]_vars
  /\ \A t \in Threads : \A k \in 1..(MaxSteps + 1) :
       (Escaping(prog[t]) /\ fi[t].faults # {} /\ fi[t].pass = k) ~>
         (pc[t] = "f" /\ ip[t] = 0 /\ fi[t].pass = k + 1)

\* A run over two escaping checks has returned from its third pass, the first
\* without a failing check.
C29_Witness ==
  /\ ev.op = "return"
  /\ pc[ev.t] = "idle"
  /\ prog[ev.t] = <<"point", "point">>
  /\ fi[ev.t].pass = 3
  /\ fi[ev.t].abort = ""
  /\ ~fi[ev.t].context

\* C30: a thread has at most one active context. faulty_run called while a run is
\* active on the thread fails the activation assertion and starts no run: the
\* context of the active run stays as it is. When faulty_run returns the thread has no
\* context; a check made then answers "do not fail" and changes nothing; and the
\* next faulty_run starts with a fresh context, whose skip_ranges is empty.
C30_OneContext ==
  [][\A t \in Threads :
       /\ (ev'.t = t /\ ev'.op = "faulty_run" /\ fi[t].context) =>
            /\ fi'[t].abort = "assert !context"
            /\ pc'[t] = "abort"
            /\ SchedulerState(fi'[t]) = SchedulerState(fi[t])
            /\ fi'[t].pass = fi[t].pass
       /\ (ev'.t = t /\ ev'.op = "faulty_run" /\ ~fi[t].context) =>
            /\ pc[t] = "idle"
            /\ pc'[t] = "f"
            /\ fi'[t].context
            /\ fi'[t].ctx = FaultInjectionContext
            /\ fi'[t].ctx.skip_ranges = <<>>
       /\ (ev'.t = t /\ ev'.op = "return" /\ pc'[t] = "idle") => ~fi'[t].context
       /\ pc'[t] = "idle" => ~fi'[t].context
       /\ (ev'.t = t /\ ev'.op = "check" /\ pc[t] = "idle") =>
            /\ ~Failed(t)
            /\ ev'.exc = "none"
            /\ fi'[t].calls = fi[t].calls
            /\ SchedulerState(fi'[t]) = SchedulerState(fi[t])]_vars

\* faulty_run was called from inside the second pass of a run: the assertion failed,
\* and the context of the outer run is as it was.
C30_Witness ==
  /\ ev.op = "faulty_run"
  /\ pc[ev.t] = "abort"
  /\ fi[ev.t].abort = "assert !context"
  /\ fi[ev.t].context
  /\ fi[ev.t].pass = 2
  /\ fi[ev.t].ctx.skip_ranges = <<1>>

\* The assertions of the loop of faulty_run, and the back() of an empty vector.
AssertionsOfLoop ==
  { "assert ctx.fault_registered", "assert !ctx.fault_registered",
    "back() of an empty skip_ranges", "exception in the handler" }

\* C31: in a run over an operation that fails by injected faults only and lets each
\* of them escape, fault_registered is set exactly while a failure is on its way to
\* the handler: the handler finds it set and error_index >= 1, so that the entry it
\* increments exists; the operation that goes on or returns finds it clear; neither
\* assertion of the loop fails.
C31_FaultRegistered ==
  \A t \in Threads :
    /\ fi[t].abort \notin AssertionsOfLoop
    /\ fi[t].context =>
         /\ fi[t].ctx.fault_registered <=> pc[t] = "catch"
         /\ pc[t] = "catch" =>
              /\ fi[t].ctx.error_index >= 1
              /\ fi[t].ctx.error_index <= Len(fi[t].ctx.skip_ranges)
              /\ fi[t].faults # {}
         /\ pc[t] = "f" => fi[t].faults = {}

\* The second check of the second pass has failed and its fault is on its way to the
\* handler, registered.
C31_Witness ==
  /\ ev.op = "check"
  /\ ev.exc = "InjectedFault"
  /\ pc[ev.t] = "catch"
  /\ fi[ev.t].pass = 2
  /\ fi[ev.t].ctx.fault_registered
  /\ fi[ev.t].ctx.error_index = 1
  /\ fi[ev.t].ctx.skip_ranges = <<1>>

\* The steps that make a check of their own, and the exception such a step threw (a
\* try block of the operation records it as the argument of its step).
OwnCheckOps == {"check", "new", "caught_check"}

Thrown(e) == IF e.op = "caught_check" THEN e.arg ELSE e.exc

\* C32: an allocation the scheduler makes for itself (the growth of skip_ranges at a
\* new failure point, the message of the InjectedFault, the resize of the handler)
\* goes through the allocation hook with injection disabled: the step counts its own
\* check only, fails by that check and by nothing else, and error_index, skip_index
\* and skip_ranges change as that one check changes them; the handler makes no
\* counted check at all.
C32_Bookkeeping ==
  [][\A t \in Threads :
       /\ (ev'.t = t /\ ev'.op \in OwnCheckOps /\ fi'[t].nested > 0) =>
            /\ fi'[t].abort = ""
            /\ fi'[t].checks = 1
            /\ Failed(t)
            /\ fi'[t].faults = fi[t].faults \cup {fi[t].calls + 1}
            /\ Thrown(ev') = IF ev'.op = "new" THEN "bad_alloc" ELSE "InjectedFault"
            /\ fi'[t].ctx.error_index = fi[t].ctx.error_index + 1
            /\ fi'[t].ctx.fault_registered
            /\ IF fi[t].ctx.error_index = Len(fi[t].ctx.skip_ranges)
                 THEN /\ fi'[t].ctx.skip_ranges = Append(fi[t].ctx.skip_ranges, 0)
                      /\ fi'[t].ctx.skip_index = fi[t].ctx.skip_index
                 ELSE /\ fi'[t].ctx.skip_ranges = fi[t].ctx.skip_ranges
                      /\ fi'[t].ctx.skip_index = 0
       /\ (ev'.t = t /\ ev'.op = "handler") =>
            /\ fi'[t].abort = ""
            /\ fi'[t].checks = 0
            /\ fi'[t].calls = 0
            /\ fi'[t].faults = {}
            /\ Len(fi'[t].ctx.skip_ranges) = fi[t].ctx.error_index]_vars

\* A check inside a try block found a second new failure point: skip_ranges grew
\* from one entry in one slot to two in two, through the hook, and the message of
\* the InjectedFault was allocated, both uncounted.
C32_Witness ==
  /\ ev.op = "caught_check"
  /\ ev.arg = "InjectedFault"
  /\ fi[ev.t].nested = 2
  /\ fi[ev.t].checks = 1
  /\ fi[ev.t].calls = 2
  /\ fi[ev.t].ctx.skip_ranges = <<0, 0>>
  /\ fi[ev.t].ctx.capacity = 2
  /\ fi[ev.t].ctx.error_index = 2

\* The scheduler f has no recorded failure point left in this pass, a check having
\* failed already.
Exhausted(f) ==
  /\ f.context
  /\ f.faults # {}
  /\ f.ctx.error_index = Len(f.ctx.skip_ranges)

\* C33: within a pass, once a check has failed and error_index has reached
\* length(skip_ranges), every further enabled check of the pass fails and appends an
\* entry to skip_ranges, and it stays so until the pass ends: after the last
\* recorded fault of a pass no enabled check lets the operation go on.
C33_AllFurtherFail ==
  [][\A t \in Threads :
       /\ (ev'.t = t /\ ev'.op \in OwnCheckOps /\ Exhausted(fi[t])
             /\ fi'[t].calls = fi[t].calls + 1) =>
            /\ Failed(t)
            /\ Thrown(ev') = IF ev'.op = "new" THEN "bad_alloc" ELSE "InjectedFault"
            /\ fi'[t].ctx.skip_ranges = Append(fi[t].ctx.skip_ranges, 0)
            /\ Exhausted(fi'[t])
       /\ (Exhausted(fi[t]) /\ ev'.op \notin {"handler", "return", "faulty_run"}) =>
            /\ Exhausted(fi'[t])
            /\ fi'[t].pass = fi[t].pass]_vars

\* Second pass: the first check went through, the second failed as recorded and was
\* swallowed, and the third, with no recorded point left, failed as a new one.
C33_Witness ==
  /\ ev.op = "caught_check"
  /\ ev.arg = "InjectedFault"
  /\ fi[ev.t].pass = 2
  /\ fi[ev.t].calls = 3
  /\ fi[ev.t].faults = {2, 3}
  /\ fi[ev.t].ctx.skip_ranges = <<1, 0>>
  /\ fi[ev.t].ctx.error_index = 2


====
